---- MODULE Spec2Model ----
(***************************************************************************)
(* A model of tinydb_admin: the structural splitter (json_splitter.py),    *)
(* the sharded directory store and the path navigator (app.py).            *)
(*                                                                         *)
(* Strings are sequences of one-character strings, so that sanitization,   *)
(* splitting on "/", isdigit() and int() are computed character by         *)
(* character.  JSON values are tagged records; Python's None is JSON null. *)
(* A file's content is the JSON document its text encodes, or a tag for    *)
(* text that is empty or does not parse.                                   *)
(***************************************************************************)
EXTENDS Integers, Sequences, FiniteSets, TLC

VARIABLES
    fs,        \* the file system: directories and files under the working directory
    session,   \* the Flask session: current_db
    call,      \* the last splitter call: its arguments and its outcome
    nav,       \* the last browse request: its path and what it resolved
    store      \* a SplitDirectoryDB instance a caller keeps, and its last call

vars == <<fs, session, call, nav, store>>

-----------------------------------------------------------------------------
(* Strings *)

\* The characters the model uses, in code point order (sorted(), str comparison).
Alphabet ==
    << " ", "\"", "#", "*", "-", ".", "/",
       "0", "1", "2", "3", "4", "5", "6", "7", "8", "9",
       ":", "<", ">", "?", "F", "H", "[", "\\", "]", "_",
       "a", "b", "c", "d", "e", "f", "i", "j", "l", "m", "n", "o", "p",
       "r", "s", "t", "u", "x", "y", "|" >>

Ord(c) == CHOOSE i \in 1..Len(Alphabet) : Alphabet[i] = c

Digits == <<"0", "1", "2", "3", "4", "5", "6", "7", "8", "9">>

IsDigitChar(c) == \E i \in 1..10 : Digits[i] = c

DigitVal(c) == (CHOOSE i \in 1..10 : Digits[i] = c) - 1

\* str < str, lexicographic by code point
RECURSIVE StrLess(_, _)
StrLess(a, b) ==
    IF b = <<>> THEN FALSE
    ELSE IF a = <<>> THEN TRUE
    ELSE IF Head(a) = Head(b) THEN StrLess(Tail(a), Tail(b))
    ELSE Ord(Head(a)) < Ord(Head(b))

\* str.endswith(suffix)
EndsWith(s, suffix) ==
    /\ Len(s) >= Len(suffix)
    /\ SubSeq(s, Len(s) - Len(suffix) + 1, Len(s)) = suffix

\* str.isdigit(): non-empty and every character a digit
IsDigit(s) == Len(s) > 0 /\ \A i \in 1..Len(s) : IsDigitChar(s[i])

RECURSIVE DigitsValue(_)
DigitsValue(s) ==
    IF s = <<>> THEN 0
    ELSE 10 * DigitsValue(SubSeq(s, 1, Len(s) - 1)) + DigitVal(s[Len(s)])

\* str.strip() over the model's alphabet, whose only white space is " "
RECURSIVE LStrip(_)
LStrip(s) == IF s # <<>> /\ Head(s) = " " THEN LStrip(Tail(s)) ELSE s

RECURSIVE RStrip(_)
RStrip(s) ==
    IF s # <<>> /\ s[Len(s)] = " " THEN RStrip(SubSeq(s, 1, Len(s) - 1)) ELSE s

Strip(s) == RStrip(LStrip(s))

\* The digits of an integer literal: digits with single underscores between them
IsIntDigits(u) ==
    /\ Len(u) > 0
    /\ \A i \in 1..Len(u) : IsDigitChar(u[i]) \/ u[i] = "_"
    /\ IsDigitChar(u[1]) /\ IsDigitChar(u[Len(u)])
    /\ \A i \in 1..(Len(u) - 1) : ~(u[i] = "_" /\ u[i + 1] = "_")

\* int(s): the value, or ValueError.  Python accepts surrounding white space, one
\* sign before the digits and one underscore between two digits.
IntParses(s) ==
    LET t == Strip(s)
        u == IF t # <<>> /\ Head(t) \in {"-", "+"} THEN Tail(t) ELSE t
    IN  IsIntDigits(u)

IntValue(s) ==
    LET t == SelectSeq(Strip(s), LAMBDA c : c # "_")
    IN  IF Head(t) = "-" THEN 0 - DigitsValue(Tail(t))
        ELSE IF Head(t) = "+" THEN DigitsValue(Tail(t))
        ELSE DigitsValue(t)

\* str(n) for an integer
RECURSIVE NatToStr(_)
NatToStr(n) ==
    IF n < 10 THEN <<Digits[n + 1]>>
    ELSE Append(NatToStr(n \div 10), Digits[(n % 10) + 1])

IntToStr(n) == IF n < 0 THEN <<"-">> \o NatToStr(0 - n) ELSE NatToStr(n)

\* s.split('/'): always at least one part
RECURSIVE SplitFrom(_, _, _)
SplitFrom(s, i, cur) ==
    IF i > Len(s) THEN <<cur>>
    ELSE IF s[i] = "/" THEN <<cur>> \o SplitFrom(s, i + 1, <<>>)
    ELSE SplitFrom(s, i + 1, Append(cur, s[i]))

SplitSlash(s) == SplitFrom(s, 1, <<>>)

\* '/'.join(parts)
RECURSIVE JoinSlash(_)
JoinSlash(parts) ==
    IF parts = <<>> THEN <<>>
    ELSE IF Len(parts) = 1 THEN parts[1]
    ELSE parts[1] \o <<"/">> \o JoinSlash(Tail(parts))

-----------------------------------------------------------------------------
(* JSON values *)

JNull == [t |-> "null"]
JNum(n) == [t |-> "num", n |-> n]
JStr(s) == [t |-> "str", s |-> s]
JBool(b) == [t |-> "bool", b |-> b]
JArr(items) == [t |-> "arr", items |-> items]
\* an object is its members in insertion order, keys distinct
JObj(kv) == [t |-> "obj", kv |-> kv]
KV(k, v) == [k |-> k, v |-> v]

\* isinstance(v, dict), isinstance(v, list)
IsDict(v) == v.t = "obj"
IsList(v) == v.t = "arr"

\* key in d
HasKey(d, k) == \E i \in 1..Len(d.kv) : d.kv[i].k = k

\* d[k]
Item(d, k) == d.kv[CHOOSE i \in 1..Len(d.kv) : d.kv[i].k = k].v

\* d.get(k, default)
GetOr(d, k, default) == IF HasKey(d, k) THEN Item(d, k) ELSE default

\* d.get(k)
Get(d, k) == GetOr(d, k, JNull)

\* Python truthiness of a JSON value (if current_doc: ...)
Truthy(v) ==
    CASE v.t = "null" -> FALSE
      [] v.t = "num"  -> v.n # 0
      [] v.t = "bool" -> v.b
      [] v.t = "str"  -> v.s # <<>>
      [] v.t = "arr"  -> v.items # <<>>
      [] v.t = "obj"  -> v.kv # <<>>
      [] OTHER        -> TRUE

-----------------------------------------------------------------------------
(* Paths and the file system *)

\* Names used by the program
s_json == <<".", "j", "s", "o", "n">>
s_root_json == <<"r", "o", "o", "t", ".", "j", "s", "o", "n">>
s_unnamed == <<"u", "n", "n", "a", "m", "e", "d">>
s_path == <<"p", "a", "t", "h">>
s_dot == <<".">>
s_dotdot == <<".", ".">>

\* A path is its sequence of components, relative to the working directory.
\* pathlib's dir / name for a name without separators: a "." component is dropped,
\* a ".." component is kept.
PathDiv(dir, name) == IF name = s_dot THEN dir ELSE Append(dir, name)

\* The root that pathlib keeps for a path of exactly two leading separators
TwoSlashes == <<"/", "/">>

\* str(path); the first component "/" or "//" is the root of an absolute path, and
\* no separator follows it
PathStr(p) ==
    IF p = <<>> THEN s_dot
    ELSE IF p[1] = <<"/">> \/ p[1] = TwoSlashes THEN p[1] \o JoinSlash(Tail(p))
    ELSE JoinSlash(p)

\* The components of a path that pathlib keeps: not the "." and the empty ones (a
\* doubled or trailing separator); ".." is kept.
PathParts(p) == SelectSeq(p, LAMBDA c : c # s_dot /\ c # <<>>)

\* An absolute path that starts with exactly two separators: pathlib keeps that root
TwoSlashRoot(p) ==
    /\ Len(p) >= 3
    /\ p[1] = <<"/">>
    /\ p[2] = <<>>
    /\ (Len(p) = 3 \/ p[3] # <<>>)

\* Path(s): the root of an absolute path, then the components pathlib keeps.  The
\* root is "/" for one separator and for three or more, "//" for exactly two.
PathOf(p) ==
    IF TwoSlashRoot(p)
    THEN <<TwoSlashes>> \o PathParts(SubSeq(p, 3, Len(p)))
    ELSE IF p # <<>> /\ p[1] = <<"/">> THEN <<<<"/">>>> \o PathParts(Tail(p))
    ELSE PathParts(p)

\* Path.name: the last component, '' for Path('.') and for a root
PathName(p) ==
    IF p = <<>> \/ p[Len(p)] = <<"/">> \/ p[Len(p)] = TwoSlashes THEN <<>>
    ELSE p[Len(p)]

\* What the operating system resolves a path to: ".." steps up, but not above the
\* root; "." and an empty component (a doubled or trailing separator) stay where
\* they are; the root "//" is the root "/".
RECURSIVE Norm(_)
Norm(p) ==
    IF p = <<>> THEN <<>>
    ELSE LET q == Norm(SubSeq(p, 1, Len(p) - 1))
             c == p[Len(p)]
         IN  IF c = s_dot \/ c = <<>> THEN q
             ELSE IF c = TwoSlashes THEN Append(q, <<"/">>)
             ELSE IF c = s_dotdot /\ q = <<<<"/">>>> THEN q
             ELSE IF c = s_dotdot /\ q # <<>> /\ q[Len(q)] # s_dotdot
                  THEN SubSeq(q, 1, Len(q) - 1)
             ELSE Append(q, c)

Parent(p) == Norm(Append(p, s_dotdot))

Prefixes(p) == {SubSeq(p, 1, n) : n \in 0..Len(p)}

\* os.path.join(directory, sub): sub's own separators count, a trailing one too (an
\* empty last component); no separator is added after a directory that ends in one
OsPathJoin(dir, sub) ==
    IF sub # <<>> /\ Head(sub) = "/" THEN <<<<"/">>>> \o SplitSlash(Tail(sub))
    ELSE IF dir # <<>> /\ dir[Len(dir)] = <<>>
    THEN SubSeq(dir, 1, Len(dir) - 1) \o SplitSlash(sub)
    ELSE dir \o SplitSlash(sub)

\* Path(name).stem: the name without its last suffix
RECURSIVE LastDot(_)
LastDot(name) ==
    IF name = <<>> THEN 0
    ELSE IF name[Len(name)] = "." THEN Len(name)
    ELSE LastDot(SubSeq(name, 1, Len(name) - 1))

Stem(name) ==
    LET i == LastDot(name)
    IN  IF 1 < i /\ i < Len(name) THEN SubSeq(name, 1, i - 1) ELSE name

\* os.path.splitext(name)[0]: leading dots are not a suffix
RECURSIVE LeadingDots(_)
LeadingDots(name) ==
    IF name # <<>> /\ Head(name) = "." THEN 1 + LeadingDots(Tail(name)) ELSE 0

SplitExtRoot(name) ==
    LET i == LastDot(name)
    IN  IF i > LeadingDots(name) THEN SubSeq(name, 1, i - 1) ELSE name

\* File contents.  json.dump followed by json.load gives the value back; the
\* formatting (indented or compact) is kept with it.
Dump(data, minify) == [kind |-> "json", val |-> data, minify |-> minify]
EmptyText == [kind |-> "empty"]
BrokenText == [kind |-> "broken"]

NoFiles == [p \in {} |-> EmptyText]

\* A directory of the file system.  The working directory and the directories above
\* it always exist.
IsDirectory(f, q) == q \in f.dirs \/ \A i \in 1..Len(q) : q[i] = s_dotdot

\* The operating system's path lookup, one component after the other: a component
\* is looked up in a directory only.  ENOTDIR when what precedes it is a file,
\* ENOENT when it does not exist.  path is where the lookup got to.
RECURSIVE LookupFrom(_, _, _, _)
LookupFrom(f, cur, p, i) ==
    IF i > Len(p) THEN [err |-> "none", path |-> cur]
    ELSE IF cur \in DOMAIN f.files THEN [err |-> "NotADirectoryError", path |-> cur]
    ELSE IF ~IsDirectory(f, cur) THEN [err |-> "FileNotFoundError", path |-> cur]
    ELSE LookupFrom(f, Norm(Append(cur, p[i])), p, i + 1)

Lookup(f, p) == LookupFrom(f, <<>>, p, 1)

\* stat(p) after the lookup r: "file", "dir", "missing", or the lookup's error
Kind(f, r) ==
    IF r.err # "none" THEN r.err
    ELSE IF IsDirectory(f, r.path) THEN "dir"
    ELSE IF r.path \in DOMAIN f.files THEN "file"
    ELSE "missing"

\* os.path.isfile
IsFile(f, p) == Kind(f, Lookup(f, p)) = "file"
\* os.path.isdir
IsDir(f, p) == Kind(f, Lookup(f, p)) = "dir"
\* os.path.exists
Exists(f, p) == Kind(f, Lookup(f, p)) \in {"file", "dir"}

\* open(p, 'r') after the lookup r: the file opened, or the OSError
OpenReadAt(f, r) ==
    IF r.err # "none" THEN [exc |-> r.err, path |-> r.path]
    ELSE IF IsDirectory(f, r.path) THEN [exc |-> "IsADirectoryError", path |-> r.path]
    ELSE IF r.path \notin DOMAIN f.files
    THEN [exc |-> "FileNotFoundError", path |-> r.path]
    ELSE [exc |-> "none", path |-> r.path]

OpenRead(f, p) == OpenReadAt(f, Lookup(f, p))

\* open(p, 'w') after the lookup r: the file created or truncated, or the OSError
OpenWriteAt(f, r) ==
    IF r.err # "none" THEN [exc |-> r.err, path |-> r.path]
    ELSE IF IsDirectory(f, r.path) THEN [exc |-> "IsADirectoryError", path |-> r.path]
    ELSE [exc |-> "none", path |-> r.path]

OpenWrite(f, p) == OpenWriteAt(f, Lookup(f, p))

PutFile(f, p, content) ==
    [f EXCEPT !.files = [q \in (DOMAIN f.files) \cup {p} |->
                            IF q = p THEN content ELSE f.files[q]]]

\* os.listdir(dir): the names directly under dir
ListDir(f, dir) ==
    LET d == Norm(dir)
    IN  {p[Len(p)] : p \in {q \in (DOMAIN f.files) \cup f.dirs :
                              Len(q) = Len(d) + 1 /\ SubSeq(q, 1, Len(d)) = d}}

\* sorted(names)
RECURSIVE SortedNames(_)
SortedNames(S) ==
    IF S = {} THEN <<>>
    ELSE LET m == CHOOSE x \in S : \A y \in S \ {x} : StrLess(x, y)
         IN  <<m>> \o SortedNames(S \ {m})

-----------------------------------------------------------------------------
(* json_splitter.py *)

DefaultMaxDepth == 2
DefaultThreshold == 2

invalid_chars == <<"<", ">", ":", "\"", "/", "\\", "|", "?", "*">>

ReplaceInvalid(name) ==
    [i \in 1..Len(name) |->
        IF \E j \in 1..Len(invalid_chars) : invalid_chars[j] = name[i]
        THEN "_" ELSE name[i]]

\* Sanitization without the default name
_sanitize_filename_no_default(name) ==
    Strip(ReplaceInvalid(name))

_sanitize_filename(name) ==
    LET stripped == Strip(ReplaceInvalid(name))
    IN  IF stripped = <<>> THEN s_unnamed ELSE stripped

\* The running state of one splitter call: the file system, the manifest
\* (structure_info), the number of files opened for writing so far, the write the
\* environment makes fail (0: none) and the exception in flight.
Raise(st, e) == IF st.exc = "none" THEN [st EXCEPT !.exc = e] ELSE st

\* os.mkdir(p) after the lookup r
os_mkdir_at(f, r) ==
    IF r.err # "none" THEN [exc |-> r.err, fs |-> f]
    ELSE IF r.path \in DOMAIN f.files \/ IsDirectory(f, r.path)
    THEN [exc |-> "FileExistsError", fs |-> f]
    ELSE [exc |-> "none", fs |-> [f EXCEPT !.dirs = @ \cup {r.path}]]

\* except OSError: if not exist_ok or not self.is_dir(): raise
MkdirExistOk(made, is_dir) ==
    IF made.exc = "none" \/ is_dir THEN [exc |-> "none", fs |-> made.fs]
    ELSE made

\* try: os.mkdir(p), in the file system f
os_mkdir(f, p) == MkdirExistOk(os_mkdir_at(f, Lookup(f, p)), IsDir(f, p))

\* pathlib's Path.mkdir(parents=True, exist_ok=True), from the top: the directories
\* of p[1..i], p[1..i+1], ... are made one after the other.  pathlib tries the
\* whole path first and the parents on FileNotFoundError; an error other than a
\* missing parent is that of the whole path.
RECURSIVE MkdirFrom(_, _, _)
MkdirFrom(made, p, i) ==
    IF i > Len(p) \/ made.exc # "none" THEN made
    ELSE MkdirFrom(os_mkdir(made.fs, SubSeq(p, 1, i)), p, i + 1)

\* os.mkdir(p) first: its error, unless a parent is missing
PathMkdirWith(f, p, first) ==
    IF first.exc # "FileNotFoundError" THEN first
    ELSE MkdirFrom([exc |-> "none", fs |-> f], p, 1)

PathMkdir(f, p) == PathMkdirWith(f, p, os_mkdir(f, p))

\* Path.mkdir(parents=True, exist_ok=True) in a running call
MkdirIn(st, made) ==
    IF made.exc # "none" THEN [st EXCEPT !.fs = made.fs, !.exc = made.exc]
    ELSE [st EXCEPT !.fs = made.fs]

Mkdir(st, dir) ==
    IF st.exc # "none" THEN st
    ELSE MkdirIn(st, PathMkdir(st.fs, dir))

\* The same with the failure swallowed: the write is skipped and the call goes on
_write_json_file_swallowing(st, file_path, data, minify) ==
    IF st.exc # "none" THEN st
    ELSE LET n == st.nwrites + 1
         IN  IF n = st.fail_at \/ OpenWrite(st.fs, file_path).exc # "none"
             THEN [st EXCEPT !.nwrites = n]
             ELSE [st EXCEPT !.nwrites = n,
                             !.fs = PutFile(@, Norm(file_path), Dump(data, minify))]

\* How the environment makes a write fail: open() itself raises and the file system
\* is as it was; or open() has created or truncated the file and the writing fails
\* when only the first kept characters of the text have reached it; or all of the
\* text has reached the file and closing it fails
FailHows == {"open", "write", "close"}

\* The file that holds the first kept characters of the text of data, at most all
\* but the last: nothing, or the leading digits of a number, which parse to that
\* other number, or a text that does not parse.  The text of every value that is no
\* number has two characters or more, and none of its cuts parses.
CutText(data, minify, kept) ==
    IF kept = 0 THEN EmptyText
    ELSE IF data.t # "num" THEN BrokenText
    ELSE LET text == IntToStr(data.n)
             cut == SubSeq(text, 1, IF kept < Len(text) THEN kept ELSE Len(text) - 1)
         IN  IF cut = <<>> THEN EmptyText
             ELSE IF cut = <<"-">> THEN BrokenText
             ELSE Dump(JNum(IntValue(cut)), minify)

\* What a write the environment makes fail leaves of the file
FailedWrite(f, p, how, kept, data, minify) ==
    IF how = "open" THEN f
    ELSE IF how = "close" THEN PutFile(f, p, Dump(data, minify))
    ELSE PutFile(f, p, CutText(data, minify, kept))

\* with open(file_path, 'w') as f: json.dump(data, f): the error of open() for the
\* path first, then the failure of the environment, then the text in the file
WriteOpened(st, o, data, minify) ==
    IF o.exc # "none"
    THEN [st EXCEPT !.nwrites = @ + 1, !.exc = o.exc]
    ELSE IF st.nwrites + 1 = st.fail_at
    THEN [st EXCEPT !.nwrites = @ + 1, !.exc = "OSError",
                    !.fs = FailedWrite(@, o.path, st.fail_how, st.fail_kept,
                                       data, minify)]
    ELSE [st EXCEPT !.nwrites = @ + 1, !.fs = PutFile(@, o.path, Dump(data, minify))]

_write_json_file(st, file_path, data, minify) ==
    IF st.exc # "none" THEN st
    ELSE WriteOpened(st, OpenWrite(st.fs, file_path), data, minify)

\* structure_info[list].append(x)
Record(st, list, x) ==
    IF st.exc # "none" THEN st
    ELSE [st EXCEPT !.info[list] = Append(@, x)]

Level(depth, key, count, action) ==
    [depth |-> depth, key |-> key, element_count |-> count, action |-> action]

\* for key, value in data.items(): write <dir>/<sanitized key>.json
RECURSIVE WriteChildren(_, _, _, _, _)
WriteChildren(st, dir, kv, i, minify) ==
    IF i > Len(kv) \/ st.exc # "none" THEN st
    ELSE LET sub_file == PathDiv(dir, _sanitize_filename(kv[i].k) \o s_json)
             st1 == _write_json_file(st, sub_file, kv[i].v, minify)
             st2 == Record(st1, "files_created", PathStr(sub_file))
         IN  WriteChildren(st2, dir, kv, i + 1, minify)

RECURSIVE _process_level(_, _, _, _, _, _, _, _)
_process_level(st, data, output_dir, current_depth, max_depth, threshold, parent_key, minify) ==
    IF st.exc # "none" THEN st
    ELSE IF ~IsDict(data) THEN st
    ELSE IF current_depth >= max_depth THEN st
    ELSE
    LET num_elements == Len(data.kv)
    IN
    IF current_depth = 0 /\ num_elements = 1
    THEN LET single_key == data.kv[1].k
             single_value == data.kv[1].v
         IN  IF IsDict(single_value)
             THEN LET sub_count == Len(single_value.kv)
                  IN  IF sub_count >= threshold
                      THEN LET level_dir ==
                                   PathDiv(output_dir, _sanitize_filename(single_key))
                               st1 == Mkdir(st, level_dir)
                               st2 == Record(st1, "directories_created",
                                             PathStr(level_dir))
                               root_file == PathDiv(output_dir, s_root_json)
                               st3 == _write_json_file(st2, root_file,
                                          JObj(<<KV(s_path, JStr(single_key))>>),
                                          minify)
                               st4 == Record(st3, "files_created", PathStr(root_file))
                               st5 == Record(st4, "levels",
                                             Level(1, single_key, sub_count, "split"))
                           IN  WriteChildren(st5, level_dir, single_value.kv, 1, minify)
                      ELSE _process_level(
                               Record(st, "levels",
                                      Level(1, single_key, sub_count, "continue")),
                               single_value, output_dir, 1, max_depth, threshold,
                               single_key, minify)
             ELSE LET output_file ==
                          PathDiv(output_dir, _sanitize_filename(single_key) \o s_json)
                      st1 == _write_json_file(st, output_file, single_value, minify)
                  IN  Record(st1, "files_created", PathStr(output_file))
    ELSE IF num_elements >= threshold
    THEN LET st0 == Record(st, "levels",
                           Level(current_depth, parent_key, num_elements, "split"))
             main_dir == PathDiv(output_dir, _sanitize_filename(parent_key))
             st1 == Mkdir(st0, main_dir)
             st2 == Record(st1, "directories_created", PathStr(main_dir))
         IN  IF current_depth = 0
             THEN LET root_file == PathDiv(output_dir, s_root_json)
                      st3 == _write_json_file(st2, root_file,
                                 JObj(<<KV(s_path, JStr(parent_key))>>), minify)
                      st4 == Record(st3, "files_created", PathStr(root_file))
                  IN  WriteChildren(st4, main_dir, data.kv, 1, minify)
             ELSE WriteChildren(st2, main_dir, data.kv, 1, minify)
    ELSE LET st0 == Record(st, "levels",
                           Level(current_depth, parent_key, num_elements, "save_as_is"))
             output_file ==
                 PathDiv(output_dir, _sanitize_filename(parent_key) \o s_json)
             st1 == _write_json_file(st0, output_file, data, minify)
         IN  Record(st1, "files_created", PathStr(output_file))

\* open(input_file) and json.load
JsonLoad(f, o) ==
    IF o.exc # "none" THEN [exc |-> o.exc, val |-> JNull]
    ELSE IF f.files[o.path].kind = "json" THEN [exc |-> "none", val |-> f.files[o.path].val]
    ELSE [exc |-> "JSONDecodeError", val |-> JNull]

ReadJson(f, p) == JsonLoad(f, OpenRead(f, p))

EmptyInfo(root_name) ==
    [root_name |-> root_name, levels |-> <<>>, files_created |-> <<>>,
     directories_created |-> <<>>]

\* The result is the running state at the end: exc = "none" when the call returns
\* structure_info, the exception it raises otherwise.
\* fail is the write the environment makes fail (at = 0: none) and how.  The empty
\* string names no file: open('') raises FileNotFoundError.
split_json_structure(f, input_file, output_dir, max_depth, threshold, minify, fail) ==
    LET rd == IF input_file = <<>> THEN [exc |-> "FileNotFoundError", val |-> JNull]
              ELSE ReadJson(f, input_file)
        output_path == PathOf(output_dir)
        st0 == [fs |-> f, info |-> EmptyInfo(<<>>), nwrites |-> 0,
                fail_at |-> fail.at, fail_how |-> fail.how, fail_kept |-> fail.kept,
                exc |-> rd.exc]
        st1 == Mkdir(st0, output_path)
        st2 == IF st1.exc = "none"
               THEN [st1 EXCEPT !.info = EmptyInfo(PathName(output_path))] ELSE st1
        input_name == Stem(PathName(PathOf(input_file)))
    IN  _process_level(st2, rd.val, output_path, 0, max_depth, threshold,
                       input_name, minify)

-----------------------------------------------------------------------------
(* app.py: the sharded directory store *)

s_default == <<"d", "e", "f", "a", "u", "l", "t">>
s__id == <<"_", "i", "d">>

\* DocumentWithId(data, doc_id)
DocumentWithId(data, doc_id) == [doc_id |-> doc_id, data |-> data]

\* self._documents.append(DocumentWithId(data, doc_id)); doc_id += 1
LoadObject(acc, data) ==
    [acc EXCEPT !.docs = Append(@, DocumentWithId(data, acc.doc_id)),
                !.doc_id = @ + 1]

\* One element of an array, with a number spent on an element that is not an object
LoadItem_numbering_skipped(acc, item) ==
    IF IsDict(item) THEN LoadObject(acc, item)
    ELSE [acc EXCEPT !.doc_id = @ + 1]

\* if isinstance(item, dict): append, doc_id += 1
LoadItem(acc, item) ==
    IF IsDict(item) THEN LoadObject(acc, item)
    ELSE acc

\* for item in data
RECURSIVE LoadItems(_, _, _)
LoadItems(items, i, acc) ==
    IF i > Len(items) THEN acc
    ELSE LoadItems(items, i + 1, LoadItem(acc, items[i]))

\* The body of the loop over sorted(os.listdir(directory))
RECURSIVE LoadFiles(_, _, _, _, _)
LoadFiles(f, directory, names, i, acc) ==
    IF i > Len(names) \/ acc.exc # "none" THEN acc
    ELSE LET file_path == Norm(Append(directory, names[i]))
             next ==
                 IF ~EndsWith(names[i], s_json) THEN acc
                 ELSE IF file_path \in f.dirs
                 THEN [acc EXCEPT !.exc = "IsADirectoryError"]
                 ELSE LET content == f.files[file_path]
                      IN  IF content.kind # "json" THEN acc
                          ELSE IF IsDict(content.val)
                          THEN LoadObject(acc, content.val)
                          ELSE IF IsList(content.val)
                          THEN LoadItems(content.val.items, 1, acc)
                          ELSE acc
         IN  LoadFiles(f, directory, names, i + 1, next)

\* SplitDirectoryTable(directory, table_name): _load_documents
_load_documents(f, directory) ==
    LET acc0 == [docs |-> <<>>, doc_id |-> 1, exc |-> "none"]
    IN  IF ~Exists(f, directory) THEN acc0
        ELSE IF ~IsDir(f, directory) THEN [acc0 EXCEPT !.exc = "NotADirectoryError"]
        ELSE LoadFiles(f, directory, SortedNames(ListDir(f, directory)), 1, acc0)

\* SplitDirectoryDB._load_root_config
_load_root_config_from(rd) ==
    IF rd.exc = "none" THEN [exc |-> "none", val |-> rd.val]
    ELSE IF rd.exc \in {"FileNotFoundError", "JSONDecodeError"}
    THEN [exc |-> "none", val |-> JObj(<<KV(s_path, JStr(<<>>))>>)]
    ELSE [exc |-> rd.exc, val |-> JNull]

_load_root_config(f, directory) ==
    _load_root_config_from(ReadJson(f, Append(directory, s_root_json)))

\* SplitDirectoryDB.__init__ once root_config is loaded
SplitDirectoryDBWith(loaded, directory) ==
    IF loaded.exc # "none"
    THEN [exc |-> loaded.exc, directory |-> directory,
          tables_path |-> directory, table_name |-> s_default]
    ELSE IF ~IsDict(loaded.val)
    THEN [exc |-> "AttributeError", directory |-> directory,
          tables_path |-> directory, table_name |-> s_default]
    ELSE LET tables_subdir == GetOr(loaded.val, s_path, JStr(<<>>))
         IN  IF ~Truthy(tables_subdir)
             THEN [exc |-> "none", directory |-> directory,
                   tables_path |-> directory, table_name |-> s_default]
             ELSE IF tables_subdir.t # "str"
             THEN [exc |-> "TypeError", directory |-> directory,
                   tables_path |-> directory, table_name |-> s_default]
             ELSE [exc |-> "none", directory |-> directory,
                   tables_path |-> OsPathJoin(directory, tables_subdir.s),
                   table_name |-> tables_subdir.s]

\* SplitDirectoryDB(directory_path): the object's fields, or the exception of
\* its constructor
SplitDirectoryDB(f, directory) ==
    SplitDirectoryDBWith(_load_root_config(f, directory), directory)

\* SplitDirectoryDB.tables
tables(db) == <<db.table_name>>

\* SplitDirectoryDB.table(name) on a fresh store: the table loads the documents of
\* tables_path, whatever the name
table(f, db, name) == _load_documents(f, db.tables_path)

\* SplitDirectoryDB.table(name) on a store with its _table_cache: the cache after the
\* call (a table whose loading raises is not kept)
table_cached(f, db, cache, name) ==
    IF name \in DOMAIN cache THEN cache
    ELSE LET tbl == table(f, db, name)
         IN  IF tbl.exc # "none" THEN cache
             ELSE [n \in DOMAIN cache \cup {name} |-> IF n = name THEN tbl ELSE cache[n]]

\* SplitDirectoryTable.all
all(tbl) == tbl.docs

\* isinstance(v, int): bool is a subclass of int
IsInt(v) == v.t \in {"num", "bool"}

\* True and False as the integers they are
NumOf(v) == IF v.t = "num" THEN v.n ELSE IF v.b THEN 1 ELSE 0

\* a == b for two JSON values (Python ==).  True is 1 and False is 0.  Arrays are
\* equal element by element, objects when they have the same keys with equal
\* values, whatever the order of the keys.
RECURSIVE JEq(_, _)
JEq(a, b) ==
    IF IsInt(a) /\ IsInt(b) THEN NumOf(a) = NumOf(b)
    ELSE IF a.t # b.t THEN FALSE
    ELSE IF a.t = "arr"
    THEN /\ Len(a.items) = Len(b.items)
         /\ \A i \in 1..Len(a.items) : JEq(a.items[i], b.items[i])
    ELSE IF a.t = "obj"
    THEN /\ Len(a.kv) = Len(b.kv)
         /\ \A i \in 1..Len(a.kv) :
               \E j \in 1..Len(b.kv) : a.kv[i].k = b.kv[j].k /\ JEq(a.kv[i].v, b.kv[j].v)
    ELSE a = b

\* The first index of a loop over docs that satisfies the test, 0 when none does
First(S) == IF S = {} THEN 0 ELSE CHOOSE i \in S : \A j \in S : i <= j

\* get(doc_id) that looks an integer id up by sequence number only
get_integer_by_sequence_only(tbl, doc_id) ==
    LET bySeq == IF IsInt(doc_id)
                 THEN First({i \in 1..Len(tbl.docs) : tbl.docs[i].doc_id = NumOf(doc_id)})
                 ELSE 0
        byField == First({i \in 1..Len(tbl.docs) :
                             JEq(Get(tbl.docs[i].data, s__id), doc_id)})
    IN  IF IsInt(doc_id)
        THEN IF bySeq > 0 THEN tbl.docs[bySeq].data ELSE JNull
        ELSE IF byField > 0 THEN tbl.docs[byField].data ELSE JNull

\* SplitDirectoryTable.get(doc_id): the document, or None
get(tbl, doc_id) ==
    LET bySeq == IF IsInt(doc_id)
                 THEN First({i \in 1..Len(tbl.docs) : tbl.docs[i].doc_id = NumOf(doc_id)})
                 ELSE 0
        byField == First({i \in 1..Len(tbl.docs) :
                             JEq(Get(tbl.docs[i].data, s__id), doc_id)})
    IN  IF bySeq > 0 THEN tbl.docs[bySeq].data
        ELSE IF byField > 0 THEN tbl.docs[byField].data
        ELSE JNull

-----------------------------------------------------------------------------
(* app.py: the monolithic store (CustomTinyDB over one JSON file) and get_db *)

\* enumerate(data, 1): {"1": doc1, "2": doc2, ...}
RECURSIVE Numbered(_, _)
Numbered(items, i) ==
    IF i > Len(items) THEN <<>>
    ELSE <<KV(IntToStr(i), items[i])>> \o Numbered(items, i + 1)

\* An upgrade that writes every parsed file again in the TinyDB layout of the text,
\* an object as it is
Upgrade_rewriting_objects(f, db_path) ==
    LET p == Norm(db_path)
    IN  IF IsFile(f, db_path) /\ f.files[p].kind = "json" /\ IsList(f.files[p].val)
        THEN PutFile(f, p,
                 Dump(JObj(<<KV(<<"_", "d", "e", "f", "a", "u", "l", "t">>,
                               JObj(Numbered(f.files[p].val.items, 1)))>>), FALSE))
        ELSE IF IsFile(f, db_path) /\ f.files[p].kind = "json" /\ IsDict(f.files[p].val)
        THEN PutFile(f, p, Dump(f.files[p].val, FALSE))
        ELSE f

\* The format upgrade of get_db: a top-level array becomes {"_default": {...}}
Upgrade(f, db_path) ==
    LET p == Norm(db_path)
    IN  IF IsFile(f, db_path) /\ f.files[p].kind = "json" /\ IsList(f.files[p].val)
        THEN PutFile(f, p,
                 Dump(JObj(<<KV(<<"_", "d", "e", "f", "a", "u", "l", "t">>,
                               JObj(Numbered(f.files[p].val.items, 1)))>>), FALSE))
        ELSE f

\* The storage's file once opened: a missing file is created
CustomTinyDBAt(f, o) ==
    IF o.exc # "none"
    THEN [db |-> [kind |-> "tiny", exc |-> o.exc, path |-> o.path], fs |-> f]
    ELSE [db |-> [kind |-> "tiny", exc |-> "none", path |-> o.path],
          fs |-> IF o.path \in DOMAIN f.files THEN f ELSE PutFile(f, o.path, EmptyText)]

\* CustomTinyDB(db_path, storage=UTF8JSONStorage): the storage creates a missing
\* file; the content is read when a table is used.
CustomTinyDB(f, db_path) == CustomTinyDBAt(f, OpenWrite(f, db_path))

\* get_db(): the store of session['current_db'] and the file system it leaves
get_db(f, current_db) ==
    IF IsDir(f, current_db) /\ Exists(f, Append(current_db, s_root_json))
    THEN LET sdb == SplitDirectoryDB(f, current_db)
         IN  [db |-> [kind |-> "split", exc |-> sdb.exc, directory |-> sdb.directory,
                      tables_path |-> sdb.tables_path,
                      table_name |-> sdb.table_name],
              fs |-> f]
    ELSE CustomTinyDB(Upgrade(f, current_db), current_db)

\* The content of the monolithic file as TinyDB reads it: the tables, or an error
TinyRead(f, db) ==
    LET c == f.files[db.path]
    IN  IF c.kind = "empty" THEN [exc |-> "none", val |-> JObj(<<>>)]
        ELSE IF c.kind # "json" THEN [exc |-> "JSONDecodeError", val |-> JNull]
        ELSE IF ~IsDict(c.val) THEN [exc |-> "TypeError", val |-> JNull]
        ELSE [exc |-> "none", val |-> c.val]

RECURSIVE TinyDocs(_, _)
TinyDocs(kv, i) ==
    IF i > Len(kv) THEN <<>>
    ELSE <<DocumentWithId(kv[i].v, JStr(kv[i].k))>> \o TinyDocs(kv, i + 1)

\* db.tables() of either store
DbTables(f, db) ==
    IF db.kind = "split" THEN {db.table_name}
    ELSE LET rd == TinyRead(f, db)
         IN  IF rd.exc = "none" THEN {rd.val.kv[i].k : i \in 1..Len(rd.val.kv)}
             ELSE {}

\* db.table(name) of either store: the documents in store order
DbTable(f, db, name) ==
    IF db.kind = "split"
    THEN LET tbl == table(f, db, name)
         IN  [kind |-> "split", exc |-> tbl.exc, docs |-> tbl.docs]
    ELSE LET rd == TinyRead(f, db)
             t == IF rd.exc = "none" THEN GetOr(rd.val, name, JObj(<<>>))
                  ELSE JObj(<<>>)
         IN  [kind |-> "tiny", exc |-> rd.exc,
              docs |-> IF IsDict(t) THEN TinyDocs(t.kv, 1) ELSE <<>>]

\* str(doc_id) as StringIdTable looks a document up
IdStr(doc_id) == IF doc_id.t = "num" THEN IntToStr(doc_id.n) ELSE doc_id.s

\* table.get(doc_id=...) of either store
DbGet(tbl, doc_id) ==
    IF tbl.kind = "split" THEN get(tbl, doc_id)
    ELSE LET i == First({j \in 1..Len(tbl.docs) :
                            tbl.docs[j].doc_id.s = IdStr(doc_id)})
         IN  IF i > 0 THEN tbl.docs[i].data ELSE JNull

-----------------------------------------------------------------------------
(* app.py: browse, the path navigator *)

s_doc == <<"d", "o", "c">>
s_field == <<"f", "i", "e", "l", "d">>
s_Documento == <<"D", "o", "c", "u", "m", "e", "n", "t", "o", " ">>

\* 'simple', 'object' or 'array' by the value's JSON type
FieldType(v) == IF IsDict(v) THEN "object" ELSE IF IsList(v) THEN "array" ELSE "simple"

RECURSIVE FieldTypesFrom(_, _)
FieldTypesFrom(kv, i) ==
    IF i > Len(kv) THEN <<>>
    ELSE <<KV(kv[i].k, FieldType(kv[i].v))>> \o FieldTypesFrom(kv, i + 1)

get_field_types(doc) == FieldTypesFrom(doc.kv, 1)

get_array_fields(doc) ==
    SelectSeq(doc.kv,
              LAMBDA m : IsList(m.v) /\ Len(m.v.items) > 0 /\ IsDict(m.v.items[1]))

\* An id in an f-string: an int or a str
\* repr(s) of a str: single quotes, double quotes when s holds a single quote and
\* no double quote; the quote in use and the backslash are escaped
RECURSIVE Escaped(_, _)
Escaped(s, quote) ==
    IF s = <<>> THEN <<>>
    ELSE (IF Head(s) = quote \/ Head(s) = "\\" THEN <<"\\", Head(s)>> ELSE <<Head(s)>>)
         \o Escaped(Tail(s), quote)

StrRepr(s) ==
    LET has(c) == \E i \in 1..Len(s) : s[i] = c
        quote == IF has("'") /\ ~has("\"") THEN "\"" ELSE "'"
    IN  <<quote>> \o Escaped(s, quote) \o <<quote>>

\* repr(v) of a value of json.load: None, True, the integer, the quoted str, [a, b],
\* {'k': v}
RECURSIVE PyRepr(_)
RECURSIVE ReprItems(_, _)
RECURSIVE ReprMembers(_, _)
PyRepr(v) ==
    IF v.t = "null" THEN <<"N", "o", "n", "e">>
    ELSE IF v.t = "num" THEN IntToStr(v.n)
    ELSE IF v.t = "bool"
    THEN (IF v.b THEN <<"T", "r", "u", "e">> ELSE <<"F", "a", "l", "s", "e">>)
    ELSE IF v.t = "str" THEN StrRepr(v.s)
    ELSE IF v.t = "arr" THEN <<"[">> \o ReprItems(v.items, 1) \o <<"]">>
    ELSE <<"{">> \o ReprMembers(v.kv, 1) \o <<"}">>

ReprItems(items, i) ==
    IF i > Len(items) THEN <<>>
    ELSE (IF i > 1 THEN <<",", " ">> ELSE <<>>) \o PyRepr(items[i])
         \o ReprItems(items, i + 1)

ReprMembers(kv, i) ==
    IF i > Len(kv) THEN <<>>
    ELSE (IF i > 1 THEN <<",", " ">> ELSE <<>>) \o StrRepr(kv[i].k) \o <<":", " ">>
         \o PyRepr(kv[i].v) \o ReprMembers(kv, i + 1)

\* str(id) in the f-string: a str as it is, any other value as its repr
FormatId(id) == IF id.t = "str" THEN id.s ELSE PyRepr(id)

\* f"{name}[{index}]"
Bracketed(name, index) == name \o <<"[">> \o IntToStr(index) \o <<"]">>

\* parts[i] with Python's indices from 0
At(parts, i) == parts[i + 1]

\* The while loop of browse: descend through nested arrays, two segments a step
RECURSIVE ArrayDescent(_, _)
ArrayDescent(parts, L) ==
    IF ~(L.part_idx < Len(parts) - 1) THEN L
    ELSE LET array_name == At(parts, L.part_idx)
             array_data == IF IsDict(L.current_array_doc)
                           THEN Get(L.current_array_doc, array_name) ELSE JNull
             index_part == At(parts, L.part_idx + 1)
         IN  IF ~IsList(array_data) THEN L
             ELSE IF ~IntParses(index_part) THEN L
             ELSE LET array_index == IntValue(index_part)
                  IN  IF ~(0 <= array_index /\ array_index < Len(array_data.items))
                      THEN L
                      ELSE LET array_item == array_data.items[array_index + 1]
                               parts_so_far ==
                                   Append(L.base_path_parts,
                                          array_name \o <<"/">> \o IntToStr(array_index))
                           IN  ArrayDescent(parts,
                                   [L EXCEPT
                                       !.base_path_parts = parts_so_far,
                                       !.nested_levels = Append(@,
                                           [type |-> "array_document",
                                            index |-> array_index,
                                            document |-> array_item,
                                            array_name |-> array_name,
                                            field_types |->
                                                IF IsDict(array_item)
                                                THEN get_field_types(array_item)
                                                ELSE <<>>,
                                            base_path |-> JoinSlash(parts_so_far)]),
                                       !.current_array_doc = array_item,
                                       !.current_array_name = array_name,
                                       !.current_array_index = array_index,
                                       !.part_idx = @ + 2])

\* current_doc becomes the innermost array element; its id is read with .get
InnermostElement(L) ==
    IF L.nested_levels = <<>> THEN L
    ELSE LET last_level == L.nested_levels[Len(L.nested_levels)]
         IN  IF ~IsDict(last_level.document)
             THEN [L EXCEPT !.current_doc = last_level.document,
                            !.exc = "AttributeError"]
             ELSE [L EXCEPT
                      !.current_doc = last_level.document,
                      !.current_doc_id =
                          GetOr(last_level.document, s__id,
                                JStr(Bracketed(last_level.array_name,
                                               last_level.index)))]

\* PlainField without the test of the value against None
PlainField_null(parts, L) ==
    IF L.exc # "none" THEN L
    ELSE IF ~(L.part_idx < Len(parts) /\ IsDict(L.current_array_doc)) THEN L
    ELSE LET field_name == At(parts, L.part_idx)
             field_value == Get(L.current_array_doc, field_name)
         IN  [L EXCEPT !.nested_levels = Append(@,
                 [type |-> "field_value",
                  field_name |-> field_name,
                  field_value |-> field_value,
                  field_type |-> FieldType(field_value),
                  parent_name |->
                      IF L.current_array_name # <<>>
                      THEN Bracketed(L.current_array_name, L.current_array_index)
                      ELSE s_Documento \o FormatId(L.current_doc_id)])]

\* The segment left after the arrays is a field of the innermost element
PlainField(parts, L) ==
    IF L.exc # "none" THEN L
    ELSE IF ~(L.part_idx < Len(parts) /\ IsDict(L.current_array_doc)) THEN L
    ELSE LET field_name == At(parts, L.part_idx)
             field_value == Get(L.current_array_doc, field_name)
         IN  IF field_value.t = "null" THEN L
             ELSE [L EXCEPT !.nested_levels = Append(@,
                      [type |-> "field_value",
                       field_name |-> field_name,
                       field_value |-> field_value,
                       field_type |-> FieldType(field_value),
                       parent_name |->
                           IF L.current_array_name # <<>>
                           THEN Bracketed(L.current_array_name, L.current_array_index)
                           ELSE s_Documento \o FormatId(L.current_doc_id)])]

\* for field in field_path: one step by key or by index, None at the first miss
RECURSIVE FieldWalk(_, _, _)
FieldWalk(field_path, i, current_value) ==
    IF i > Len(field_path) THEN current_value
    ELSE LET field == field_path[i]
         IN  IF IsDict(current_value) /\ HasKey(current_value, field)
             THEN FieldWalk(field_path, i + 1, Item(current_value, field))
             ELSE IF IsList(current_value) /\ IsDigit(field)
             THEN LET idx == DigitsValue(field)
                  IN  IF 0 <= idx /\ idx < Len(current_value.items)
                      THEN FieldWalk(field_path, i + 1, current_value.items[idx + 1])
                      ELSE JNull
             ELSE JNull

\* The body of the parts[3] == 'field' block: field_path is resolved on current_doc
FieldNavigation(field_path, L) ==
    LET field_name == field_path[1]
        field_data == IF IsDict(L.current_doc) /\ HasKey(L.current_doc, field_name)
                      THEN Item(L.current_doc, field_name) ELSE JNull
        asArray ==
            /\ IsList(field_data)
            /\ Len(field_path) >= 2
            /\ IntParses(field_path[2])
            /\ 0 <= IntValue(field_path[2])
            /\ IntValue(field_path[2]) < Len(field_data.items)
    IN  IF asArray
        THEN LET array_index == IntValue(field_path[2])
                 array_item == field_data.items[array_index + 1]
                 L1 == [L EXCEPT !.nested_levels = Append(@,
                           [type |-> "array_document",
                            index |-> array_index,
                            document |-> array_item,
                            array_name |-> field_name,
                            field_types |-> IF IsDict(array_item)
                                            THEN get_field_types(array_item)
                                            ELSE <<>>])]
                 subfield_value ==
                     IF Len(field_path) >= 3 /\ IsDict(array_item)
                     THEN Get(array_item, field_path[3]) ELSE JNull
             IN  IF subfield_value.t = "null" THEN L1
                 ELSE [L1 EXCEPT !.nested_levels = Append(@,
                          [type |-> "field_value",
                           field_name |-> field_path[3],
                           field_value |-> subfield_value,
                           field_type |-> FieldType(subfield_value),
                           parent_name |-> Bracketed(field_name, array_index)])]
        ELSE LET current_value == FieldWalk(field_path, 1, L.current_doc)
             IN  IF current_value.t = "null" THEN L
                 ELSE [L EXCEPT !.nested_levels = Append(@,
                          [type |-> "field_value",
                           field_name |-> field_name,
                           field_value |-> current_value,
                           field_type |-> FieldType(current_value),
                           parent_name |-> s_Documento \o FormatId(L.current_doc_id)])]

\* FieldPath with the marker taken at its first occurrence anywhere below the id
FieldPath_anywhere(parts, L) ==
    LET marks == {p \in 4..(Len(parts) - 1) : parts[p] = s_field}
    IN  IF L.exc # "none" \/ marks = {} THEN L
        ELSE FieldNavigation(SubSeq(parts, First(marks) + 1, Len(parts)), L)

\* if len(parts) >= 5 and parts[3] == 'field': navigation in the fields of current_doc
FieldPath(parts, L) ==
    IF L.exc # "none" THEN L
    ELSE IF ~(Len(parts) >= 5 /\ At(parts, 3) = s_field) THEN L
    ELSE FieldNavigation(SubSeq(parts, 5, Len(parts)), L)

\* The analysis of the path below table/doc/id
Resolve(parts, L) ==
    IF ~(Truthy(L.current_doc) /\ IsDict(L.current_doc) /\ Len(parts) >= 5) THEN L
    ELSE LET L1 == ArrayDescent(parts,
                       [L EXCEPT !.current_array_doc = L.current_doc, !.part_idx = 3])
             L2 == InnermostElement([L1 EXCEPT !.root_doc = L.current_doc])
             L3 == PlainField(parts, L2)
         IN  FieldPath(parts, L3)

\* Is the last segment the index of an array element, and of which array
TrailingIndex(parts, L) ==
    LET no == [is_array_item |-> FALSE, item_index |-> JNull,
               item_parent_name |-> <<>>, current_array |-> JNull,
               current_array_name |-> <<>>, exc |-> L.exc]
    IN  IF L.exc # "none" THEN no
        ELSE IF ~(IsDigit(parts[Len(parts)]) /\ Len(parts) >= 2) THEN no
        ELSE LET prev_part == parts[Len(parts) - 1]
                 yes == [no EXCEPT !.is_array_item = TRUE,
                                   !.item_index = JNum(DigitsValue(parts[Len(parts)])),
                                   !.item_parent_name = prev_part]
             IN  IF prev_part \in {s_doc, s_field} THEN no
                 ELSE IF ~(Truthy(L.root_doc) /\ IsDict(L.root_doc)) THEN yes
                 ELSE IF Len(L.nested_levels) > 1
                 THEN LET parent_level == L.nested_levels[Len(L.nested_levels) - 1]
                      IN  IF parent_level.type # "array_document"
                          THEN [yes EXCEPT !.exc = "KeyError"]
                          ELSE IF ~IsDict(parent_level.document)
                          THEN [yes EXCEPT !.exc = "AttributeError"]
                          ELSE [yes EXCEPT
                                   !.current_array =
                                       Get(parent_level.document, prev_part),
                                   !.current_array_name = prev_part]
                 ELSE [yes EXCEPT !.current_array = Get(L.root_doc, prev_part),
                                  !.current_array_name = prev_part]

\* int(parts[2]) or, when that fails, parts[2]
DocId(part) == IF IntParses(part) THEN JNum(IntValue(part)) ELSE JStr(part)

\* Names used by build_breadcrumb
s_nome == <<"n", "o", "m", "e">>
s_Home == <<"H", "o", "m", "e">>
s_slash == <<"/">>
s_browse_slash == <<"/", "b", "r", "o", "w", "s", "e", "/">>

\* One entry (url, label) of the breadcrumb: url is None (JNull) or a string; label is
\* a string or whatever value the document keeps under nome
Crumb(url, label) == [url |-> url, label |-> label]

\* The label of the entry of parts[i] (i counted from 0, as in the code)
CrumbLabel(parts, i, current_doc) ==
    LET part == parts[i + 1]
    IN  IF i = 0 THEN JStr(part)
        ELSE IF i >= 2 /\ parts[i] = s_doc
        THEN IF Truthy(current_doc) /\ IsDict(current_doc) /\ HasKey(current_doc, s_nome)
             THEN Item(current_doc, s_nome)
             ELSE JStr(<<"#">> \o part)
        ELSE JStr(part)

\* The URL of an entry, with doc and field left out of it
CrumbUrl_labels_only(current_path_parts) ==
    s_browse_slash \o JoinSlash(SelectSeq(current_path_parts,
                                          LAMBDA p : p \notin {s_doc, s_field}))

\* The URL of an entry: every segment so far, doc and field included
CrumbUrl(current_path_parts) ==
    s_browse_slash \o JoinSlash(current_path_parts)

\* The while loop of build_breadcrumb from position i (counted from 0)
RECURSIVE CrumbLoop(_, _, _, _, _)
CrumbLoop(parts, i, current_path_parts, breadcrumb, current_doc) ==
    IF ~(i < Len(parts)) THEN breadcrumb
    ELSE LET part == parts[i + 1]
             appended == Append(current_path_parts, part)
             current_url == CrumbUrl(appended)
             label == CrumbLabel(parts, i, current_doc)
         IN  IF part = <<>>
             THEN CrumbLoop(parts, i + 1, current_path_parts, breadcrumb, current_doc)
             ELSE IF part \in {s_doc, s_field}
             THEN CrumbLoop(parts, i + 1, appended, breadcrumb, current_doc)
             ELSE IF i = Len(parts) - 1
             THEN CrumbLoop(parts, i + 1, appended,
                            Append(breadcrumb, Crumb(JNull, label)), current_doc)
             ELSE CrumbLoop(parts, i + 1, appended,
                            Append(breadcrumb, Crumb(JStr(current_url), label)), current_doc)

\* build_breadcrumb(path, current_doc): the list [(url, label), ...] of a path
build_breadcrumb(path, current_doc) ==
    IF path = <<>> THEN <<Crumb(JStr(s_slash), JStr(s_Home))>>
    ELSE CrumbLoop(SplitSlash(path), 0, <<>>, <<Crumb(JStr(s_slash), JStr(s_Home))>>,
                   current_doc)

\* browse(path) on the store get_db() returned: what the view hands to the template,
\* or the exception that ends the request
browse(f, db, path) ==
    LET parts == SplitSlash(path)
        current_table == parts[1]
        tbl == IF current_table # <<>> THEN DbTable(f, db, current_table)
               ELSE [kind |-> "none", exc |-> "none", docs |-> <<>>]
        L0 == [exc |-> IF db.exc # "none" THEN db.exc ELSE tbl.exc,
               current_doc_id |-> JNull, current_doc |-> JNull,
               root_doc_id |-> JNull, root_doc |-> JNull,
               nested_levels |-> <<>>,
               current_array_doc |-> JNull, current_array_name |-> <<>>,
               current_array_index |-> 0, part_idx |-> 0, base_path_parts |-> <<>>]
        L1 == IF /\ L0.exc = "none"
                 /\ Len(parts) >= 3
                 /\ tbl.kind # "none"
                 /\ At(parts, 1) = s_doc
              THEN LET id == DocId(At(parts, 2))
                       doc == DbGet(tbl, id)
                   IN  Resolve(parts, [L0 EXCEPT !.current_doc_id = id,
                                                 !.current_doc = doc,
                                                 !.root_doc_id = id,
                                                 !.root_doc = doc])
              ELSE L0
        T == TrailingIndex(parts, L1)
    IN  [op |-> "browse", path |-> path, exc |-> T.exc,
         tables |-> IF db.exc = "none" THEN DbTables(f, db) ELSE {},
         current_table |-> current_table,
         current_doc_id |-> L1.current_doc_id,
         root_doc_id |-> L1.root_doc_id,
         current_doc |-> L1.current_doc,
         root_doc |-> L1.root_doc,
         documents |-> tbl.docs,
         nested_levels |-> L1.nested_levels,
         array_collections |-> IF L1.exc = "none" /\ Truthy(L1.current_doc)
                               THEN get_array_fields(L1.current_doc) ELSE <<>>,
         field_types |-> IF L1.exc = "none" /\ Truthy(L1.current_doc)
                         THEN get_field_types(L1.current_doc) ELSE <<>>,
         is_array_item |-> T.is_array_item,
         item_index |-> T.item_index,
         item_parent_name |-> T.item_parent_name,
         current_array |-> T.current_array,
         current_array_name |-> T.current_array_name,
         breadcrumb |-> IF T.exc = "none" THEN build_breadcrumb(path, L1.current_doc)
                        ELSE <<>>]

-----------------------------------------------------------------------------
(* The splitter's callers: the command line (main) and the /split-json route *)

s_database_json == <<"d", "a", "t", "a", "b", "a", "s", "e", ".", "j", "s", "o", "n">>

NoCall ==
    [op |-> "none", input_file |-> <<>>, output_dir |-> <<>>, data |-> JNull,
     max_depth |-> 0, threshold |-> 0, minify |-> FALSE, fail_at |-> 0,
     fail_how |-> "none", fail_kept |-> 0, exc |-> "none", info |-> EmptyInfo(<<>>),
     nwrites |-> 0,
     before |-> [dirs |-> {}, files |-> NoFiles]]

NoNav == [op |-> "none"]

NoStore == [op |-> "none"]

\* What one call of split_json_structure did, for the record of the call
CallRecord(op, f, input_file, output_dir, max_depth, threshold, minify, fail, st) ==
    [op |-> op, input_file |-> input_file, output_dir |-> output_dir,
     data |-> ReadJson(f, input_file).val,
     max_depth |-> max_depth, threshold |-> threshold, minify |-> minify,
     fail_at |-> fail.at, fail_how |-> fail.how, fail_kept |-> fail.kept,
     exc |-> st.exc, info |-> st.info,
     nwrites |-> st.nwrites, before |-> f]

\* python json_splitter.py input_file output_dir [--max-depth N] [--threshold N] [--minify]
\* The empty string names no file: os.path.exists('') is False.
main(input_file, output_dir, max_depth, threshold, minify, fail) ==
    /\ call.op = "none"
    /\ IF input_file = <<>> \/ ~Exists(fs, input_file)
       THEN /\ call' = [NoCall EXCEPT !.op = "main", !.input_file = input_file,
                                      !.exc = "not_found"]
            /\ fs' = fs
       ELSE LET st == split_json_structure(fs, input_file, output_dir, max_depth,
                                           threshold, minify, fail)
            IN  /\ fs' = st.fs
                /\ call' = CallRecord("main", fs, input_file, output_dir, max_depth,
                                      threshold, minify, fail, st)
    /\ UNCHANGED <<session, nav, store>>

\* The first of name, name_1, name_2, ... that does not exist
RECURSIVE FreshDir(_, _, _)
FreshDir(f, original, counter) ==
    LET candidate == IF counter = 0 THEN original
                     ELSE [original EXCEPT ![Len(original)] =
                                               @ \o <<"_">> \o IntToStr(counter)]
    IN  IF Exists(f, candidate) THEN FreshDir(f, original, counter + 1)
        ELSE candidate

\* POST /split-json: split the chosen file into a fresh directory named after it,
\* compact output, and select the new directory as the current database
split_json(input_file, fail) ==
    /\ call.op = "none"
    /\ IF \/ input_file = <<>>
          \/ ~Exists(fs, input_file)
          \/ ~EndsWith(input_file[Len(input_file)], s_json)
       THEN /\ call' = [NoCall EXCEPT !.op = "split_json", !.input_file = input_file,
                                      !.exc = "rejected"]
            /\ UNCHANGED <<fs, session, store>>
       ELSE LET output_dir == FreshDir(fs, [input_file EXCEPT ![Len(input_file)] = SplitExtRoot(@)], 0)
                st == split_json_structure(fs, input_file, output_dir,
                                           DefaultMaxDepth, DefaultThreshold, TRUE,
                                           fail)
            IN  /\ fs' = st.fs
                /\ call' = CallRecord("split_json", fs, input_file, output_dir,
                                      DefaultMaxDepth, DefaultThreshold, TRUE,
                                      fail, st)
                /\ session' = IF st.exc = "none"
                              THEN [session EXCEPT !.current_db = output_dir]
                              ELSE session
    /\ UNCHANGED <<nav, store>>

-----------------------------------------------------------------------------
(* Inputs of the splitter specification *)

\* The largest number of members of an input object
MaxKeys == 2
\* The writes the environment may make fail: the 1st .. the MaxFailAt-th
MaxFailAt == 3

\* The most characters of its text that a file whose writing fails may hold
MaxKept == 1

\* No write fails
NoFail == [at |-> 0, how |-> "none", kept |-> 0]

\* The characters that reach the file in each way of failing
Kepts(how) == IF how = "write" THEN 0..MaxKept ELSE {0}

\* What the environment may do to the writes of one call
Failures ==
    {NoFail} \cup {[at |-> n, how |-> h.how, kept |-> h.kept] :
                      n \in 1..MaxFailAt,
                      h \in UNION {{[how |-> w, kept |-> k] : k \in Kepts(w)} : w \in FailHows}}

k_a == <<"a">>
k_b == <<"b">>
k_a_slash_b == <<"a", "/", "b">>
k_a_colon_b == <<"a", ":", "b">>
k_x == <<"x">>
k_T == <<"T">>

ChildKeys == {k_a, k_b, k_a_slash_b, k_a_colon_b}
TopKeys == {k_T, k_a_colon_b}

Row(n) == JObj(<<KV(k_x, JNum(n))>>)

\* The value stored under each member: an object, an array of objects, an array
\* with an element that is no object, a number of two digits
ValueOf(k) ==
    CASE k = k_a         -> Row(1)
      [] k = k_b         -> JArr(<<Row(1), Row(2)>>)
      [] k = k_a_slash_b -> JArr(<<Row(3), JNum(5)>>)
      [] OTHER           -> JNum(12)

\* The objects of at most MaxKeys members over ChildKeys, in every member order
RECURSIVE Members(_, _)
Members(ks, i) ==
    IF i > Len(ks) THEN <<>>
    ELSE <<KV(ks[i], ValueOf(ks[i]))>> \o Members(ks, i + 1)

KeyOrders(n) ==
    {ks \in [1..n -> ChildKeys] : \A i, j \in 1..n : i # j => ks[i] # ks[j]}

Objects == UNION {{JObj(Members(ks, 1)) : ks \in KeyOrders(n)} : n \in 0..MaxKeys}

SplitInputs ==
    Objects
    \cup {JObj(<<KV(k, o)>>) : k \in TopKeys, o \in Objects}
    \cup {JArr(<<Row(1), Row(2)>>)}

in_db_json == <<"d", "b", ".", "j", "s", "o", "n">>
in_colon_json == <<"a", ":", "b", ".", "j", "s", "o", "n">>
in_missing_json == <<"n", "o", ".", "j", "s", "o", "n">>
InputNames == {in_db_json, in_colon_json}

s_out == <<"o", "u", "t">>

MaxDepths == 0..DefaultMaxDepth
Thresholds == 0..(DefaultThreshold + 1)

InitSplit ==
    /\ \E name \in InputNames, content \in {Dump(d, FALSE) : d \in SplitInputs}
                                            \cup {BrokenText} :
          fs = [dirs |-> {<<>>}, files |-> [p \in {<<name>>} |-> content]]
    /\ session = [current_db |-> <<s_database_json>>]
    /\ call = NoCall
    /\ nav = NoNav
    /\ store = NoStore

NextSplit ==
    \/ /\ call.op = "none"
       /\ \E input_file \in {<<n>> : n \in InputNames \cup {in_missing_json}},
             max_depth \in MaxDepths, threshold \in Thresholds,
             minify \in BOOLEAN, fail \in Failures :
             main(input_file, <<s_out>>, max_depth, threshold, minify, fail)
    \/ /\ call.op = "none"
       /\ \E input_file \in {<<n>> : n \in InputNames \cup {in_missing_json}},
             fail \in Failures :
             split_json(input_file, fail)

SpecSplit == InitSplit /\ [][NextSplit]_vars

-----------------------------------------------------------------------------
(* The requests of the browsing specification *)

\* GET /browse/<path>.  The view keeps nothing from one request to the next (nav
\* only records what it answered), so each behaviour follows one request.
browse_request(path) ==
    LET g == get_db(fs, session.current_db)
    IN  /\ nav.op = "none"
        /\ nav' = browse(g.fs, g.db, path)
        /\ fs' = g.fs
        /\ UNCHANGED <<session, call, store>>

\* POST /select-db
select_db(db_file) ==
    /\ nav.op = "none"
    /\ db_file # <<>>
    /\ Exists(fs, db_file)
    /\ session' = [session EXCEPT !.current_db = db_file]
    /\ UNCHANGED <<fs, call, nav, store>>

\* The most segments of an address below table/doc/id
MaxExtra == 4

k_arr == <<"a", "r", "r">>
k_n == <<"n">>
k_nome == <<"n", "o", "m", "e">>
k_0 == <<"0">>
k_1 == <<"1">>
k_t == <<"t">>
k_u == <<"u">>
s_sh == <<"s", "h">>

\* {"nome": "Foo", "arr": [{"x": {"n": 1}, "arr": [{"x": 2}, "s"], "n": null}, "s"],
\*  "x": {"n": 1, "arr": [5]}, "n": null}
Doc1 ==
    JObj(<< KV(k_nome, JStr(<<"F", "o", "o">>)),
            KV(k_arr, JArr(<< JObj(<< KV(k_x, JObj(<<KV(k_n, JNum(1))>>)),
                                      KV(k_arr, JArr(<< JObj(<<KV(k_x, JNum(2))>>),
                                                        JStr(<<"s">>) >>)),
                                      KV(k_n, JNull) >>),
                              JStr(<<"s">>) >>)),
            KV(k_x, JObj(<< KV(k_n, JNum(1)), KV(k_arr, JArr(<<JNum(5)>>)) >>)),
            KV(k_n, JNull) >>)

\* {"nome": 5, "field": "v", "x": [{"n": 1}]}
Doc2 ==
    JObj(<< KV(k_nome, JNum(5)),
            KV(s_field, JStr(<<"v">>)),
            KV(k_x, JArr(<<JObj(<<KV(k_n, JNum(1))>>)>>)) >>)

\* {"field": [{"0": 7, "x": 1}], "n": 0}
Doc3 ==
    JObj(<< KV(s_field, JArr(<<JObj(<< KV(k_0, JNum(7)), KV(k_x, JNum(1)) >>)>>)),
            KV(k_n, JNum(0)) >>)

\* database.json: {"t": {"1": Doc1, "2": Doc2, "3": Doc3}}
Monolithic ==
    JObj(<<KV(k_t, JObj(<< KV(<<"1">>, Doc1), KV(<<"2">>, Doc2),
                           KV(<<"3">>, Doc3) >>))>>)

\* sh/root.json = {"path": "t"}, sh/t/a.json = Doc1, sh/t/b.json = [Doc2, Doc3]
BrowseFiles ==
    LET db == <<s_database_json>>
        root == <<s_sh, s_root_json>>
        a == <<s_sh, k_t, <<"a">> \o s_json>>
        b == <<s_sh, k_t, <<"b">> \o s_json>>
    IN  [p \in {db, root, a, b} |->
            IF p = db THEN Dump(Monolithic, FALSE)
            ELSE IF p = root THEN Dump(JObj(<<KV(s_path, JStr(k_t))>>), TRUE)
            ELSE IF p = a THEN Dump(Doc1, TRUE)
            ELSE Dump(JArr(<<Doc2, Doc3>>), TRUE)]

Segments == {k_arr, k_x, k_n, s_field, k_0, k_1}

\* The documents of the table
Heads == {<<k_t, s_doc, <<"1">>>>, <<k_t, s_doc, <<"2">>>>, <<k_t, s_doc, <<"3">>>>}

\* The table alone, an unknown table, a missing document
Strays == {<<k_t>>, <<k_u, s_doc, <<"1">>>>, <<k_t, s_doc, <<"9">>>>}

\* The most segments of an address below a stray head
MaxStrayExtra == 2

RECURSIVE TupleOf(_, _)
TupleOf(g, i) == IF i > Len(g) THEN <<>> ELSE <<g[i]>> \o TupleOf(g, i + 1)

\* The sequences of at most n segments
Below(n) == {TupleOf(e, 1) : e \in UNION {[1..m -> Segments] : m \in 0..n}}

\* The addresses of at most MaxExtra segments below the id of a document, and of at
\* most MaxStrayExtra below a stray head
Addresses ==
    {h \o e : h \in Heads, e \in Below(MaxExtra)}
    \cup {h \o e : h \in Strays, e \in Below(MaxStrayExtra)}

InitBrowse ==
    /\ fs = [dirs |-> {<<>>, <<s_sh>>, <<s_sh, k_t>>}, files |-> BrowseFiles]
    /\ session = [current_db |-> <<s_database_json>>]
    /\ call = NoCall
    /\ nav = NoNav
    /\ store = NoStore

NextBrowse ==
    \/ \E db_file \in {<<s_database_json>>, <<s_sh>>} : select_db(db_file)
    \/ /\ nav.op = "none"
       /\ \E address \in Addresses : browse_request(JoinSlash(address))

SpecBrowse == InitBrowse /\ [][NextBrowse]_vars

-----------------------------------------------------------------------------
(* build_breadcrumb on its own: every path of a few segments, with and without a
   document *)

\* One call of build_breadcrumb, on the path and the document at hand
breadcrumb_call ==
    /\ nav.op = "none"
    /\ nav' = [op |-> "build_breadcrumb", path |-> nav.path,
               current_doc |-> nav.current_doc,
               breadcrumb |-> build_breadcrumb(nav.path, nav.current_doc)]
    /\ UNCHANGED <<fs, session, call, store>>

\* The most segments of a path handed to build_breadcrumb
MaxCrumbParts == 5

k_coll == <<"c", "o", "l", "l">>
k_5 == <<"5">>
k_Foo == <<"F", "o", "o">>

CrumbSegments == {k_coll, s_doc, k_5, s_field, k_x, <<>>}

CrumbPaths ==
    {JoinSlash(TupleOf(e, 1)) : e \in UNION {[1..m -> CrumbSegments] : m \in 0..MaxCrumbParts}}

\* No document, a document named Foo, one whose nome is a number, one without nome,
\* an empty one
CrumbDocs ==
    {JNull,
     JObj(<<KV(s_nome, JStr(k_Foo))>>),
     JObj(<<KV(s_nome, JNum(5))>>),
     JObj(<<KV(k_x, JNum(1))>>),
     JObj(<<>>)}

InitCrumb ==
    /\ fs = [dirs |-> {<<>>}, files |-> NoFiles]
    /\ session = [current_db |-> <<s_database_json>>]
    /\ call = NoCall
    /\ \E path \in CrumbPaths, current_doc \in CrumbDocs :
          nav = [op |-> "none", path |-> path, current_doc |-> current_doc]
    /\ store = NoStore

NextCrumb == breadcrumb_call

SpecCrumb == InitCrumb /\ [][NextCrumb]_vars

-----------------------------------------------------------------------------
(* The splitter's contract *)

\* split_json_structure ran to its end and returned the manifest
Completed == call.op \in {"main", "split_json"} /\ call.exc = "none"

\* The files directly under a directory
FilesUnder(f, dir) ==
    LET d == Norm(dir)
    IN  {p \in DOMAIN f.files : Len(p) = Len(d) + 1 /\ SubSeq(p, 1, Len(d)) = d}

RootConfig(key) == JObj(<<KV(s_path, JStr(key))>>)

HasRootJson(f, dir, key) ==
    /\ IsFile(f, Append(dir, s_root_json))
    /\ f.files[Norm(Append(dir, s_root_json))].kind = "json"
    /\ f.files[Norm(Append(dir, s_root_json))].val = RootConfig(key)

\* One file per member of kv under dir, each holding the member's value
OneFilePerChild(f, dir, kv) ==
    /\ Cardinality(FilesUnder(f, dir)) = Len(kv)
    /\ \A i \in 1..Len(kv) :
          LET p == Norm(Append(dir, _sanitize_filename(kv[i].k) \o s_json))
          IN  p \in DOMAIN f.files /\ f.files[p].val = kv[i].v

C1Case ==
    /\ Completed
    /\ IsDict(call.data)
    /\ Len(call.data.kv) = 1
    /\ IsDict(call.data.kv[1].v)
    /\ Len(call.data.kv[1].v.kv) >= call.threshold
    /\ call.max_depth >= 1

\* C1: an object with one top-level key k whose value is an object of n >= threshold
\* members (max_depth >= 1) gives root.json = {"path": k} and exactly n files, one
\* per member, directly under <output_dir>/<sanitize(k)>/, whatever the member names.
C1_SingleKeySplit ==
    C1Case =>
        LET k == call.data.kv[1].k
            dir == Append(call.output_dir, _sanitize_filename(k))
        IN  /\ HasRootJson(fs, call.output_dir, k)
            /\ OneFilePerChild(fs, dir, call.data.kv[1].v.kv)

C2Case ==
    /\ Completed
    /\ IsDict(call.data)
    /\ Len(call.data.kv) >= call.threshold
    /\ Len(call.data.kv) # 1
    /\ call.max_depth >= 1

\* C2: an object with n >= threshold top-level keys, n # 1 (max_depth >= 1), gives
\* one subdirectory named after the sanitized stem of the input file holding exactly
\* n files, one per top-level member, and root.json at the output root.
C2_TopLevelSplit ==
    C2Case =>
        LET key == Stem(call.input_file[Len(call.input_file)])
            dir == Append(call.output_dir, _sanitize_filename(key))
        IN  /\ IsDir(fs, dir)
            /\ IsFile(fs, Append(call.output_dir, s_root_json))
            /\ OneFilePerChild(fs, dir, call.data.kv)

\* The members the splitter wrote one file each for, when its decision was split
SplitChildren ==
    IF C1Case THEN call.data.kv[1].v.kv
    ELSE IF C2Case THEN call.data.kv
    ELSE <<>>

RECURSIVE DocumentsIn(_, _)
DocumentsIn(kv, i) ==
    IF i > Len(kv) THEN 0
    ELSE (IF IsDict(kv[i].v) THEN 1
          ELSE IF IsList(kv[i].v) THEN Len(kv[i].v.items)
          ELSE 0) + DocumentsIn(kv, i + 1)

\* C3: round trip.  A store constructed on the output directory of a split decision
\* lists one document per member that is an object plus one per element of every
\* member that is an array.
C3_RoundTripCount ==
    (C1Case \/ C2Case) =>
        LET db == SplitDirectoryDB(fs, call.output_dir)
            tbl == table(fs, db, tables(db)[1])
        IN  /\ db.exc = "none"
            /\ tbl.exc = "none"
            /\ Len(all(tbl)) = DocumentsIn(SplitChildren, 1)

HasLevel(action) ==
    \E i \in 1..Len(call.info.levels) : call.info.levels[i].action = action

SavedAsIs(key, node) ==
    LET p == Norm(Append(call.output_dir, _sanitize_filename(key) \o s_json))
    IN  /\ p \in DOMAIN fs.files
        /\ fs.files[p].kind = "json"
        /\ fs.files[p].val = node
        /\ HasLevel("save_as_is")

\* C4: a node that is no object, or that is met at depth >= max_depth, is written
\* verbatim to <sanitize(key)>.json with a save_as_is level entry: at the top (depth
\* 0, the key is the input file's stem) and below a collapsed single key (depth 1).
C4_SaveAsIs ==
    /\ (Completed /\ (~IsDict(call.data) \/ call.max_depth <= 0)) =>
           SavedAsIs(Stem(call.input_file[Len(call.input_file)]), call.data)
    /\ (/\ Completed
        /\ IsDict(call.data)
        /\ call.max_depth = 1
        /\ Len(call.data.kv) = 1
        /\ IsDict(call.data.kv[1].v)
        /\ Len(call.data.kv[1].v.kv) < call.threshold) =>
           SavedAsIs(call.data.kv[1].k, call.data.kv[1].v)

\* The environment made the fail_at-th write of the call fail
WriteFailed ==
    /\ call.op \in {"main", "split_json"}
    /\ call.fail_at > 0
    /\ call.nwrites >= call.fail_at

\* The paths of the files the call has written
Written == {Norm(SplitSlash(call.info.files_created[i])) :
               i \in 1..Len(call.info.files_created)}

\* The files on disk that the call neither met nor lists as created
Unfinished == (DOMAIN fs.files) \ ((DOMAIN call.before.files) \cup Written)

\* No write after the failed one, the files written before it are on disk and
\* listed, and beside them there is at most one file that is not listed: the one whose
\* write failed, with whatever part of its text reached it
FilesLeftInPlace ==
    /\ call.nwrites = call.fail_at
    /\ Len(call.info.files_created) = call.fail_at - 1
    /\ Written \subseteq DOMAIN fs.files
    /\ Cardinality(Unfinished) <= 1

-----------------------------------------------------------------------------
(* The navigator's contract *)

\* The segments of the address a request resolved
Address == SplitSlash(nav.path)

\* The request was for an address table/doc/id/... of at least n segments
DocAddress(n) ==
    /\ nav.op = "browse"
    /\ Len(Address) >= n
    /\ n >= 3
    /\ Address[2] = s_doc

\* The document the address names, as table.get returned it (root_doc of browse)
RootDocument == nav.root_doc

\* node[name][index] is an element of an Array-valued field of the Object node
Selects(node, name, index) ==
    /\ IsDict(node)
    /\ IsList(Get(node, name))
    /\ IntParses(index)
    /\ 0 <= IntValue(index)
    /\ IntValue(index) < Len(Get(node, name).items)

\* The ArrayElement nodes of the longest run of (name, index) segment pairs from
\* segment i on, each taken from the element the step before selected
RECURSIVE Elements(_, _, _)
Elements(node, parts, i) ==
    IF i + 1 <= Len(parts) /\ Selects(node, parts[i], parts[i + 1])
    THEN LET element == Get(node, parts[i]).items[IntValue(parts[i + 1]) + 1]
         IN  <<[type |-> "ArrayElement", arrayFieldName |-> parts[i],
                index |-> IntValue(parts[i + 1]), value |-> element]>>
             \o Elements(element, parts, i + 2)
    ELSE <<>>

\* The FieldValue node of a value
FieldValueNode(name, value) ==
    [type |-> "FieldValue", name |-> name, value |-> value,
     valueKind |-> FieldType(value)]

\* A level of the response as a ResolvedNode
Node(level) ==
    IF level.type = "array_document"
    THEN [type |-> "ArrayElement", arrayFieldName |-> level.array_name,
          index |-> level.index, value |-> level.document]
    ELSE [type |-> "FieldValue", name |-> level.field_name,
          value |-> level.field_value, valueKind |-> level.field_type]

\* The node chain of the response
Chain == [i \in 1..Len(nav.nested_levels) |-> Node(nav.nested_levels[i])]

FieldValues == SelectSeq(Chain, LAMBDA node : node.type = "FieldValue")

\* What the address resolves to in the store: the root document, the array descent
\* from it, the innermost node the descent reaches and the segment it stops at
Resolved ==
    LET root == RootDocument
        descent == Elements(root, Address, 4)
    IN  [root |-> root,
         descent |-> descent,
         innermost |-> IF descent = <<>> THEN root ELSE descent[Len(descent)].value,
         remaining |-> 4 + 2 * Len(descent)]

\* Every segment of path applied in sequence from value, by key or by index
RECURSIVE Walk(_, _, _)
Walk(value, path, i) ==
    IF i > Len(path) THEN [ok |-> TRUE, value |-> value]
    ELSE IF IsDict(value) /\ HasKey(value, path[i])
    THEN Walk(Item(value, path[i]), path, i + 1)
    ELSE IF /\ IsList(value)
            /\ IsDigit(path[i])
            /\ DigitsValue(path[i]) < Len(value.items)
    THEN Walk(value.items[DigitsValue(path[i]) + 1], path, i + 1)
    ELSE [ok |-> FALSE, value |-> JNull]

\* C6: resolving an address never raises an error, whatever the JSON types of the
\* values met on the way and whatever the field names of the document.
C6_NeverRaises == nav.op = "browse" => nav.exc = "none"

\* The address is table/doc/id/a1/n1/.../ak/nk and every pair selects an element
C7Case ==
    /\ DocAddress(5)
    /\ (Len(Address) - 3) % 2 = 0
    /\ 2 * Len(Resolved.descent) = Len(Address) - 3

\* C7: for table/doc/id/a1/n1/.../ak/nk with every a_i an Array-valued field of the
\* node reached so far and every n_i an index in range, the node chain is exactly the
\* k ArrayElement nodes in address order and the innermost value is the last element.
C7_NestedArrayChain ==
    C7Case => LET r == Resolved
              IN  /\ nav.exc = "none"
                  /\ Chain = r.descent
                  /\ nav.current_doc = r.innermost

\* The segments after table/doc/id/field
FieldSegments == SubSeq(Address, 5, Len(Address))

\* C8: for table/doc/id/field/s1/.../sm whose m steps all succeed from the root
\* document, exactly one FieldValue node is emitted, for the terminal value and with
\* its valueKind: no segment of the field path is left unapplied.
C8_FieldPathTerminal ==
    DocAddress(5) /\ Address[4] = s_field =>
        LET root == RootDocument
            terminal == Walk(root, FieldSegments, 1)
        IN  IsDict(root) /\ terminal.ok =>
                /\ nav.exc = "none"
                /\ Len(FieldValues) = 1
                /\ FieldValues[1].value = terminal.value
                /\ FieldValues[1].valueKind = FieldType(terminal.value)

\* The first `field` segment below the document id, 0 when there is none
FieldMark == First({p \in 4..Len(Address) : Address[p] = s_field})
AfterMark == SubSeq(Address, FieldMark + 1, Len(Address))

\* The address has a `field` segment and the segments after it resolve, from the
\* root document, to a value that is not null
Reanchors(root) ==
    /\ FieldMark > 0
    /\ FieldMark < Len(Address)
    /\ IsDict(root)
    /\ Walk(root, AfterMark, 1).ok
    /\ Walk(root, AfterMark, 1).value.t # "null"

\* C9: a literal `field` segment re-anchors traversal at the root document wherever
\* it appears after the document id: the segments after it are resolved against the
\* root document and the array descent before it is discarded.
C9_FieldReanchorsAnywhere ==
    DocAddress(5) /\ nav.exc = "none" =>
        LET root == RootDocument
        IN  Reanchors(root) =>
                /\ Len(Chain) = 1
                /\ Chain[1].type = "FieldValue"
                /\ Chain[1].value = Walk(root, AfterMark, 1).value

\* The plain field the navigation looks up once the array descent r has stopped
PlainNode(r) ==
    IF /\ r.remaining <= Len(Address)
       /\ IsDict(r.innermost)
       /\ Get(r.innermost, Address[r.remaining]).t # "null"
    THEN <<FieldValueNode(Address[r.remaining],
                          Get(r.innermost, Address[r.remaining]))>>
    ELSE <<>>

\* The address has a `field` segment, but not right after the id of a document
LateMark(root) ==
    /\ IsDict(root)
    /\ root.kv # <<>>
    /\ FieldMark > 4

\* C9 (amended): `field` marks a field path only as the segment right after the
\* document id.  Later in the address it is an ordinary segment: the array descent
\* is kept, the innermost value stays the last element selected, the segment after
\* the descent is looked up as a plain field of that element, and nothing is
\* resolved against the root document; the request fails when the element the
\* descent stops at is not an Object.
C9_FieldMarksOnlyAfterId ==
    DocAddress(5) =>
        LET r == Resolved
        IN  LateMark(r.root) =>
                IF IsDict(r.innermost)
                THEN /\ nav.exc = "none"
                     /\ Chain = r.descent \o PlainNode(r)
                     /\ nav.current_doc = r.innermost
                ELSE nav.exc = "AttributeError"

\* table/doc/id/arr/0/field/x with x a field of the root document: only arr[0]
C9_Witness ==
    /\ DocAddress(5)
    /\ nav.exc = "none"
    /\ Reanchors(Resolved.root)
    /\ LateMark(Resolved.root)
    /\ Len(Resolved.descent) >= 1
    /\ Resolved.remaining = FieldMark
    /\ Chain = Resolved.descent

\* A segment f is left after the array descent r, f is not `field`, and f is a
\* field of the innermost node reached
PlainFieldLeft(r) ==
    /\ IsDict(r.root)
    /\ r.remaining <= Len(Address)
    /\ Address[r.remaining] # s_field
    /\ IsDict(r.innermost)
    /\ HasKey(r.innermost, Address[r.remaining])

\* C10: a plain field f present on the innermost node is emitted as a FieldValue
\* node carrying its value, for every address length (table/doc/id/f included) and
\* every value of the field (null included).
C10_PlainFieldAlways ==
    DocAddress(4) /\ nav.exc = "none" =>
        LET r == Resolved
        IN  PlainFieldLeft(r) =>
                \E i \in 1..Len(Chain) :
                    Chain[i] = FieldValueNode(Address[r.remaining],
                                              Item(r.innermost, Address[r.remaining]))

\* C10 (amended): when the address has at least five segments, does not start below
\* the id with `field`, and the value of f is not null, the chain is the array
\* descent followed by the FieldValue node of f; for the four-segment address
\* table/doc/id/f and for a null value no FieldValue node is emitted.
C10_PlainFieldFromFiveSegments ==
    DocAddress(4) /\ Address[4] # s_field =>
        LET r == Resolved
            value == Item(r.innermost, Address[r.remaining])
        IN  PlainFieldLeft(r) =>
                /\ nav.exc = "none"
                /\ IF Len(Address) >= 5 /\ value.t # "null"
                   THEN Chain = r.descent
                                \o <<FieldValueNode(Address[r.remaining], value)>>
                   ELSE FieldValues = <<>>

\* table/doc/id/arr/0/x: the field x of arr[0] is emitted after the array element
C10_Witness ==
    /\ DocAddress(4)
    /\ Address[4] # s_field
    /\ PlainFieldLeft(Resolved)
    /\ Len(Resolved.descent) >= 1
    /\ Len(FieldValues) = 1
    /\ Chain[Len(Chain)].value = Item(Resolved.innermost, Address[Resolved.remaining])

\* The final segment is all digits and the one before it is neither doc nor field
TrailingIndexCase ==
    /\ Len(Address) >= 2
    /\ IsDigit(Address[Len(Address)])
    /\ Address[Len(Address) - 1] \notin {s_doc, s_field}

\* C11: for every address, browse marks the final segment as an array-element index
\* if and only if it is all digits and the segment before it is neither doc nor field.
C11_TrailingIndexRule ==
    nav.op = "browse" =>
        ((nav.exc = "none" /\ nav.is_array_item) <=> TrailingIndexCase)

-----------------------------------------------------------------------------
(* The sharded store on its own: a caller builds a SplitDirectoryDB over a directory,
   uses its tables, and the shard files change meanwhile *)

\* SplitDirectoryDB(directory_path)
construct(directory) ==
    LET db == SplitDirectoryDB(fs, directory)
    IN  /\ store.op = "none"
        /\ store' = [op |-> "SplitDirectoryDB", db |-> db, exc |-> db.exc,
                     _table_cache |-> [n \in {} |-> 0],
                     files_at_construction |-> fs, changes |-> 0,
                     last |-> [op |-> "none"]]
        /\ UNCHANGED <<fs, session, call, nav>>

\* The store was built and can be used
Built == store.op = "SplitDirectoryDB" /\ store.exc = "none"

\* db.table(name).all()
table_all(name) ==
    /\ Built
    /\ LET cache == table_cached(fs, store.db, store._table_cache, name)
       IN  store' = [store EXCEPT
                        !._table_cache = cache,
                        !.last = IF name \in DOMAIN cache
                                 THEN [op |-> "all", name |-> name, exc |-> "none",
                                       ret |-> all(cache[name])]
                                 ELSE [op |-> "all", name |-> name,
                                       exc |-> table(fs, store.db, name).exc]]
    /\ UNCHANGED <<fs, session, call, nav>>

\* db.table(name).get(doc_id)
table_get(name, doc_id) ==
    /\ Built
    /\ LET cache == table_cached(fs, store.db, store._table_cache, name)
       IN  store' = [store EXCEPT
                        !._table_cache = cache,
                        !.last = IF name \in DOMAIN cache
                                 THEN [op |-> "get", name |-> name, exc |-> "none",
                                       doc_id |-> doc_id,
                                       ret |-> get(cache[name], doc_id)]
                                 ELSE [op |-> "get", name |-> name,
                                       exc |-> table(fs, store.db, name).exc]]
    /\ UNCHANGED <<fs, session, call, nav>>

\* The most changes of shard files while the store is in use
MaxChanges == 1

\* Something else rewrites a shard file while the store is in use
shard_change(p, content) ==
    /\ store.op = "SplitDirectoryDB"
    /\ store.changes < MaxChanges
    /\ fs' = PutFile(fs, p, content)
    /\ store' = [store EXCEPT !.changes = @ + 1]
    /\ UNCHANGED <<session, call, nav>>

k_k == <<"k">>
k_z == <<"z">>
a_json == <<"a">> \o s_json
b_json == <<"b">> \o s_json
c_json == <<"c">> \o s_json
e_json == <<"e">> \o s_json
n_txt == <<"n", ".", "t", "x", "t">>

\* Documents with a string _id, an integer _id no sequence number reaches, no _id,
\* and an integer _id that is also a sequence number
ShardDoc1 == JObj(<<KV(s__id, JStr(k_k)), KV(k_x, JNum(1))>>)
ShardDoc2 == JObj(<<KV(s__id, JNum(7)), KV(k_x, JNum(2))>>)
ShardDoc3 == JObj(<<KV(k_x, JNum(3))>>)
ShardDoc4 == JObj(<<KV(s__id, JNum(1)), KV(k_x, JNum(4))>>)

\* What a shard file may hold: one object, arrays with and without elements that are
\* not objects, nothing, text that does not parse, a number
ShardContents ==
    {Dump(ShardDoc1, TRUE),
     Dump(JArr(<<ShardDoc2, JStr(<<"s">>), ShardDoc3>>), TRUE),
     Dump(JArr(<<ShardDoc3, ShardDoc4>>), TRUE),
     EmptyText, BrokenText, Dump(JNum(5), TRUE)}

\* root.json: a path, a path to a file with and without a separator after it, the
\* empty path, no path, not an object, a path that is not a string, text that does
\* not parse; and no root.json at all
RootContents ==
    {Dump(JObj(<<KV(s_path, JStr(k_t))>>), TRUE),
     Dump(JObj(<<KV(s_path, JStr(c_json \o <<"/">>))>>), TRUE),
     Dump(JObj(<<KV(s_path, JStr(c_json))>>), TRUE),
     Dump(JObj(<<KV(s_path, JStr(<<>>))>>), TRUE),
     Dump(JObj(<<>>), TRUE),
     Dump(JArr(<<JNum(1)>>), TRUE),
     Dump(JObj(<<KV(s_path, JNum(5))>>), TRUE),
     BrokenText}

\* The directory sh: c.json beside root.json, and a.json, b.json, e.json, n.txt in t
StoreFiles(root, a, b) ==
    LET fixed == [p \in {<<s_sh, c_json>>, <<s_sh, k_t, a_json>>, <<s_sh, k_t, b_json>>,
                         <<s_sh, k_t, e_json>>, <<s_sh, k_t, n_txt>>} |->
                     IF p = <<s_sh, c_json>> THEN Dump(ShardDoc3, TRUE)
                     ELSE IF p = <<s_sh, k_t, a_json>> THEN a
                     ELSE IF p = <<s_sh, k_t, b_json>> THEN b
                     ELSE IF p = <<s_sh, k_t, e_json>> THEN EmptyText
                     ELSE Dump(ShardDoc1, TRUE)]
    IN  IF root.kind = "absent" THEN fixed
        ELSE [p \in DOMAIN fixed \cup {<<s_sh, s_root_json>>} |->
                 IF p = <<s_sh, s_root_json>> THEN root ELSE fixed[p]]

InitStore ==
    /\ \E root \in RootContents \cup {[kind |-> "absent"]}, a \in ShardContents,
          b \in {c \in ShardContents : c.kind = "json" => IsList(c.val)} :
          fs = [dirs |-> {<<>>, <<s_sh>>, <<s_sh, k_t>>}, files |-> StoreFiles(root, a, b)]
    /\ session = [current_db |-> <<s_sh>>]
    /\ call = NoCall
    /\ nav = NoNav
    /\ store = NoStore

TableNames == {k_t, k_u}

StoreIds == {JNum(1), JNum(2), JNum(7), JStr(k_k), JStr(k_z), JNull, JBool(TRUE)}

\* A shard file of either directory is rewritten
Changes ==
    {<<<<s_sh, k_t, a_json>>, Dump(ShardDoc4, TRUE)>>,
     <<<<s_sh, c_json>>, Dump(ShardDoc4, TRUE)>>}

NextStore ==
    \/ construct(<<s_sh>>)
    \/ \E name \in TableNames : table_all(name)
    \/ \E name \in TableNames, doc_id \in StoreIds : table_get(name, doc_id)
    \/ \E c \in Changes : shard_change(c[1], c[2])

SpecStore == InitStore /\ [][NextStore]_vars

-----------------------------------------------------------------------------
(* get_db called again and again on one monolithic file *)

\* The most get_db calls followed
MaxCalls == 3

\* The content of a file, or that there is none
ContentAt(f, r) == IF Kind(f, r) = "file" THEN f.files[r.path] ELSE [kind |-> "absent"]

ContentOf(f, p) == ContentAt(f, Lookup(f, p))

\* The seed functions of popolamento.py, which a run may call before get_db()
SeedOps == {"inizializza", "popola", "crea_disneyland"}

\* One request reaches get_db(); the record keeps the content the first call met
\* and the content the first call left
get_db_call ==
    LET g == get_db(fs, session.current_db)
        n == IF call.op = "get_db" THEN call.n ELSE 0
    IN  /\ call.op \in {"none", "get_db"} \cup SeedOps
        /\ n < MaxCalls
        /\ fs' = g.fs
        /\ call' = [op |-> "get_db", n |-> n + 1, exc |-> g.db.exc,
                    met |-> IF n = 0 THEN ContentOf(fs, session.current_db) ELSE call.met,
                    left |-> IF n = 0 THEN ContentOf(g.fs, session.current_db)
                             ELSE call.left]
        /\ UNCHANGED <<session, nav, store>>

\* The longest array a file of the upgrade specification holds
MaxArrayLen == 3

ArrayElements == {JNum(1), JStr(<<"s">>), ShardDoc3, JNull}

Arrays == {JArr(TupleOf(e, 1)) : e \in UNION {[1..m -> ArrayElements] : m \in 0..MaxArrayLen}}

\* Objects: none, a TinyDB file, one whose _default is an array
TopObjects ==
    {JObj(<<>>), Monolithic,
     JObj(<<KV(<<"_", "d", "e", "f", "a", "u", "l", "t">>, JArr(<<ShardDoc3>>))>>)}

InitUpgrade ==
    /\ \E content \in {Dump(d, m) : d \in Arrays \cup TopObjects \cup {JNum(5)},
                                     m \in BOOLEAN}
                       \cup {EmptyText, BrokenText, [kind |-> "absent"]} :
          fs = [dirs |-> {<<>>},
                files |-> IF content.kind = "absent" THEN NoFiles
                          ELSE [p \in {<<s_database_json>>} |-> content]]
    /\ session = [current_db |-> <<s_database_json>>]
    /\ call = NoCall
    /\ nav = NoNav
    /\ store = NoStore

NextUpgrade == get_db_call

SpecUpgrade == InitUpgrade /\ [][NextUpgrade]_vars

-----------------------------------------------------------------------------
(* popolamento.py: the seed functions.  They write database.json through TinyDB
   itself; what is modelled of TinyDB is what the three functions use: the
   default JSONStorage and a table's insert and len. *)

\* TinyDB(path): the storage opens the file and creates a missing one, as for
\* CustomTinyDB; the tables have integer ids
TinyDB(f, path) == CustomTinyDB(f, path)

\* JSONStorage.read: None for a file of size 0, json.load of it otherwise
StorageRead(f, p) ==
    IF f.files[p].kind = "empty" THEN [exc |-> "none", val |-> JNull]
    ELSE IF f.files[p].kind # "json" THEN [exc |-> "JSONDecodeError", val |-> JNull]
    ELSE [exc |-> "none", val |-> f.files[p].val]

\* d[k] = v: in place when d has the key, at the end otherwise
SetItem(kv, k, v) ==
    IF \E i \in 1..Len(kv) : kv[i].k = k
    THEN [i \in 1..Len(kv) |-> IF kv[i].k = k THEN KV(k, v) ELSE kv[i]]
    ELSE Append(kv, KV(k, v))

\* Table._read_table on what the storage read: tables[name], {} for an empty
\* storage and for a storage without the table
ReadTable(rd, name) ==
    IF rd.exc # "none" THEN rd
    ELSE IF rd.val.t = "null" THEN [exc |-> "none", val |-> JObj(<<>>)]
    ELSE IF ~IsDict(rd.val) THEN [exc |-> "TypeError", val |-> JNull]
    ELSE [exc |-> "none", val |-> GetOr(rd.val, name, JObj(<<>>))]

_read_table(f, p, name) == ReadTable(StorageRead(f, p), name)

\* max(int(key)) + 1 over the keys of the table t, 1 for an empty table
NextId(t) ==
    IF t.exc # "none" THEN [exc |-> t.exc, id |-> 0]
    ELSE IF ~Truthy(t.val) THEN [exc |-> "none", id |-> 1]
    ELSE IF ~IsDict(t.val) THEN [exc |-> "AttributeError", id |-> 0]
    ELSE IF \E i \in 1..Len(t.val.kv) : ~IntParses(t.val.kv[i].k)
    THEN [exc |-> "ValueError", id |-> 0]
    ELSE [exc |-> "none",
          id |-> (CHOOSE m \in {IntValue(t.val.kv[i].k) : i \in 1..Len(t.val.kv)} :
                     \A j \in 1..Len(t.val.kv) : IntValue(t.val.kv[j].k) <= m) + 1]

\* Table._get_next_id: the id kept from the last call, or else the one the table
\* in the storage gives
_get_next_id(f, p, tbl) ==
    IF tbl.cached THEN [exc |-> "none", id |-> tbl.next_id]
    ELSE NextId(_read_table(f, p, tbl.name))

\* {int(doc_id): doc ...} and back to {str(doc_id): doc ...}: keys that are the same
\* integer become one key, at the place of the first with the document of the last
RECURSIVE IntKeyed(_, _, _)
IntKeyed(kv, i, acc) ==
    IF i > Len(kv) THEN acc
    ELSE IntKeyed(kv, i + 1, SetItem(acc, IntToStr(IntValue(kv[i].k)), kv[i].v))

\* The updater of insert on the table with integer keys, and the storage written
\* again by json.dumps with the table in it
Updated(f, p, all_tables, name, int_table, doc_id, document) ==
    IF \E i \in 1..Len(int_table) : int_table[i].k = IntToStr(doc_id)
    THEN [exc |-> "ValueError", fs |-> f]
    ELSE [exc |-> "none",
          fs |-> PutFile(f, p,
                     [kind |-> "json", minify |-> FALSE, oneline |-> TRUE,
                      val |-> JObj(SetItem(all_tables.kv, name,
                                 JObj(Append(int_table,
                                             KV(IntToStr(doc_id), document)))))])]

\* Table._update_table on the tables the storage holds: tables[name], {} without it
UpdateTable(f, p, all_tables, name, raw_table, doc_id, document) ==
    IF ~IsDict(raw_table) THEN [exc |-> "AttributeError", fs |-> f]
    ELSE IF \E i \in 1..Len(raw_table.kv) : ~IntParses(raw_table.kv[i].k)
    THEN [exc |-> "ValueError", fs |-> f]
    ELSE Updated(f, p, all_tables, name, IntKeyed(raw_table.kv, 1, <<>>), doc_id, document)

\* Table._update_table on what the storage read, {} for an empty storage
UpdateRead(f, p, rd, name, doc_id, document) ==
    IF rd.exc # "none" THEN [exc |-> rd.exc, fs |-> f]
    ELSE IF rd.val.t = "null"
    THEN UpdateTable(f, p, JObj(<<>>), name, JObj(<<>>), doc_id, document)
    ELSE IF ~IsDict(rd.val) THEN [exc |-> "TypeError", fs |-> f]
    ELSE UpdateTable(f, p, rd.val, name, GetOr(rd.val, name, JObj(<<>>)), doc_id,
                     document)

_update_table(f, p, name, doc_id, document) ==
    UpdateRead(f, p, StorageRead(f, p), name, doc_id, document)

\* Table.insert(document) once the id is known.  The table keeps the id after the
\* one it gave, also when the update fails.
Inserted(tbl, next_id, updated) ==
    [exc |-> updated.exc, fs |-> updated.fs,
     tbl |-> [tbl EXCEPT !.cached = TRUE, !.next_id = next_id.id + 1],
     doc_id |-> next_id.id]

InsertAs(f, p, tbl, document, next_id) ==
    IF next_id.exc # "none"
    THEN [exc |-> next_id.exc, fs |-> f, tbl |-> tbl, doc_id |-> 0]
    ELSE Inserted(tbl, next_id, _update_table(f, p, tbl.name, next_id.id, document))

\* Table.insert(document) on the table object tbl: the next id, then the update
insert(f, p, tbl, document) == InsertAs(f, p, tbl, document, _get_next_id(f, p, tbl))

\* db.table(name): a table object that has given no id yet
NewTable(name) == [name |-> name, cached |-> FALSE, next_id |-> 0]

\* len(t) of the table read
LenOf(t) ==
    IF t.exc # "none" THEN [exc |-> t.exc, n |-> 0]
    ELSE IF t.val.t = "obj" THEN [exc |-> "none", n |-> Len(t.val.kv)]
    ELSE IF t.val.t = "arr" THEN [exc |-> "none", n |-> Len(t.val.items)]
    ELSE IF t.val.t = "str" THEN [exc |-> "none", n |-> Len(t.val.s)]
    ELSE [exc |-> "TypeError", n |-> 0]

\* len(table): len(self._read_table())
__len__(f, p, name) == LenOf(_read_table(f, p, name))

\* What a seed function did: the exception it raised, the file system it left, the
\* ids of the documents it inserted, the length of the table at the end and the
\* table object as the function left it
Seeded(exc, f, ids, total, tbl) ==
    [exc |-> exc, fs |-> f, ids |-> ids, total |-> total, tbl |-> tbl]

\* A seed function that went through its inserts: the table's length at the end,
\* or the exception of the inserts or of len
SeededWith(done, total) ==
    IF done.exc # "none" THEN Seeded(done.exc, done.fs, done.ids, 0, done.tbl)
    ELSE Seeded(total.exc, done.fs, done.ids, total.n, done.tbl)

s_riassunti == <<"r", "i", "a", "s", "s", "u", "n", "t", "i">>
s_Disneyland == <<"D", "i", "s", "n", "e", "y", "l", "a", "n", "d">>
cartella_riassunti == <<<<"r", "i", "a", "s", "s", "u", "n", "t", "i", "_", "H">>>>

\* insert(document) as one step of a function that inserts several documents
InsertNext(st, done) ==
    [exc |-> done.exc, fs |-> done.fs, tbl |-> done.tbl,
     ids |-> IF done.exc = "none" THEN Append(st.ids, done.doc_id) ELSE st.ids]

\* The database object a caller holds from an earlier call, with the two tables as
\* the object keeps them (db.table(name) gives the same table object each time);
\* NoHeld is db=None
NoHeld ==
    [has |-> FALSE, riassunti |-> NewTable(s_riassunti),
     Disneyland |-> NewTable(s_Disneyland)]

\* if db is None: db = TinyDB('database.json').  A database passed in has its file
\* open already.
DbOf(f, held) ==
    IF held.has
    THEN [db |-> [kind |-> "tiny", exc |-> "none", path |-> <<s_database_json>>],
          fs |-> f]
    ELSE TinyDB(f, <<s_database_json>>)

\* The function's state before its first insert, on the database opened and with
\* the table object tbl
Opened(db, tbl) == [exc |-> db.db.exc, fs |-> db.fs, tbl |-> tbl, ids |-> <<>>]

\* for doc in docs: table.insert(doc): the first insert that raises ends the loop
RECURSIVE InsertAll(_, _, _, _)
InsertAll(st, p, docs, i) ==
    IF i > Len(docs) \/ st.exc # "none" THEN st
    ELSE InsertAll(InsertNext(st, insert(st.fs, p, st.tbl, docs[i])), p, docs, i + 1)

\* The inserts of a seed function and the len of the table after them
SeedInserts(done, p, name) == SeededWith(done, __len__(done.fs, p, name))

\* inizializza() on the database opened
inizializza_db(db) ==
    SeedInserts(InsertAll(Opened(db, NewTable(s_riassunti)), db.db.path,
                    <<JObj(<<KV(s_nome, JStr(<<"r", "i", "a", "s", "s", "u", "n", "t",
                                              "o", "_", "p", "r", "o", "v", "a">>))>>)>>,
                    1),
                db.db.path, s_riassunti)

\* inizializza(): one document in the table riassunti
inizializza(f) == inizializza_db(TinyDB(f, <<s_database_json>>))

\* One file of riassunti_H: not .json, or its reading raises, or the insert raises
\* (the three are skipped), or one more document
PopolaFile(st, filename, contenuto, done) ==
    IF ~EndsWith(filename, s_json) \/ contenuto.exc # "none" THEN st
    ELSE IF done.exc # "none" THEN [st EXCEPT !.tbl = done.tbl]
    ELSE InsertNext(st, done)

PopolaRead(st, p, filename, contenuto) ==
    PopolaFile(st, filename, contenuto,
               insert(st.fs, p, st.tbl,
                      JObj(<<KV(s_nome, JStr(filename)),
                             KV(<<"c", "o", "n", "t", "e", "n", "u", "t", "o">>,
                                contenuto.val)>>)))

\* The loop of popola over os.listdir(cartella_riassunti), in the order the
\* operating system gives the names
RECURSIVE PopolaLoop(_, _, _, _)
PopolaLoop(st, p, names, i) ==
    IF i > Len(names) THEN st
    ELSE PopolaLoop(PopolaRead(st, p, names[i],
                               ReadJson(st.fs, cartella_riassunti \o <<names[i]>>)),
                    p, names, i + 1)

\* popola(db, riassunti) on the database opened
popola_db(db, riassunti, names) ==
    IF db.db.exc # "none" \/ ~Exists(db.fs, cartella_riassunti)
    THEN Seeded(db.db.exc, db.fs, <<>>, 0, riassunti)
    ELSE IF ~IsDir(db.fs, cartella_riassunti)
    THEN Seeded("NotADirectoryError", db.fs, <<>>, 0, riassunti)
    ELSE SeedInserts(PopolaLoop(Opened(db, riassunti), db.db.path, names, 1),
                     db.db.path, s_riassunti)

\* popola(db, riassunti): one document of riassunti per .json file of riassunti_H/;
\* held is the database passed in with its table riassunti, or NoHeld; names is
\* os.listdir's order
popola(f, held, names) == popola_db(DbOf(f, held), held.riassunti, names)

\* The documents crea_disneyland inserts: the three areas, then the two cities
aree ==
    <<JObj(<<KV(<<"n", "o", "m", "e">>, JStr(<<"M", "a", "i", "n", " ", "S", "t", "r", "e",
        "e", "t", " ", "U", "S", "A">>)), KV(<<"t", "i", "p", "o">>, JStr(<<"a", "r", "e",
        "a">>)), KV(<<"d", "e", "s", "c", "r", "i", "z", "i", "o", "n", "e">>, JStr(<<"L",
        "a", " ", "v", "i", "a", " ", "p", "r", "i", "n", "c", "i", "p", "a", "l", "e",
        " ", "i", "s", "p", "i", "r", "a", "t", "a", " ", "a", "l", "l", " ", "A", "m",
        "e", "r", "i", "c", "a", " ", "d", "i", " ", "f", "i", "n", "e", " ", "8", "0",
        "0">>)), KV(<<"a", "t", "t", "r", "a", "z", "i", "o", "n", "i", "_", "p", "r", "i",
        "n", "c", "i", "p", "a", "l", "i">>, JArr(<<JStr(<<"T", "r", "e", "n", "o", " ",
        "D", "i", "s", "n", "e", "y">>), JStr(<<"T", "e", "a", "t", "r", "o", " ", "T",
        "o", "w", "n", " ", "S", "q", "u", "a", "r", "e">>)>>))>>), JObj(<<KV(<<"n", "o",
        "m", "e">>, JStr(<<"F", "a", "n", "t", "a", "s", "y", "l", "a", "n", "d">>)),
        KV(<<"t", "i", "p", "o">>, JStr(<<"a", "r", "e", "a">>)), KV(<<"d", "e", "s", "c",
        "r", "i", "z", "i", "o", "n", "e">>, JStr(<<"I", "l", " ", "r", "e", "g", "n", "o",
        " ", "d", "e", "l", "l", "e", " ", "f", "i", "a", "b", "e", " ", "e", " ", "d",
        "e", "l", "l", "a", " ", "m", "a", "g", "i", "a">>)), KV(<<"a", "t", "t", "r", "a",
        "z", "i", "o", "n", "i", "_", "p", "r", "i", "n", "c", "i", "p", "a", "l", "i">>,
        JArr(<<JStr(<<"C", "a", "s", "t", "e", "l", "l", "o", " ", "d", "e", "l", "l", "a",
        " ", "B", "e", "l", "l", "a", " ", "A", "d", "d", "o", "r", "m", "e", "n", "t",
        "a", "t", "a">>), JStr(<<"P", "e", "t", "e", "r", " ", "P", "a", "n">>)>>))>>),
        JObj(<<KV(<<"n", "o", "m", "e">>, JStr(<<"A", "d", "v", "e", "n", "t", "u", "r",
        "e", "l", "a", "n", "d">>)), KV(<<"t", "i", "p", "o">>, JStr(<<"a", "r", "e",
        "a">>)), KV(<<"d", "e", "s", "c", "r", "i", "z", "i", "o", "n", "e">>, JStr(<<"T",
        "e", "r", "r", "e", " ", "e", "s", "o", "t", "i", "c", "h", "e", " ", "e", " ",
        "a", "v", "v", "e", "n", "t", "u", "r", "e", " ", "t", "r", "o", "p", "i", "c",
        "a", "l", "i">>)), KV(<<"a", "t", "t", "r", "a", "z", "i", "o", "n", "i", "_", "p",
        "r", "i", "n", "c", "i", "p", "a", "l", "i">>, JArr(<<JStr(<<"P", "i", "r", "a",
        "t", "i", " ", "d", "e", "i", " ", "C", "a", "r", "a", "i", "b", "i">>),
        JStr(<<"I", "n", "d", "i", "a", "n", "a", " ", "J", "o", "n", "e", "s">>)>>))>>)>>

paperopoli_doc ==
    JObj(<<KV(<<"n", "o", "m", "e">>, JStr(<<"P", "a", "p", "e", "r", "o", "p", "o", "l",
        "i">>)), KV(<<"t", "i", "p", "o">>, JStr(<<"c", "i", "t", "t", "à">>)), KV(<<"d",
        "e", "s", "c", "r", "i", "z", "i", "o", "n", "e">>, JStr(<<"L", "a", " ", "c", "i",
        "t", "t", "à", " ", "n", "a", "t", "a", "l", "e", " ", "d", "i", " ", "P", "a",
        "p", "e", "r", "i", "n", "o", " ", "e", " ", "d", "e", "l", "l", "a", " ", "s",
        "u", "a", " ", "f", "a", "m", "i", "g", "l", "i", "a">>)), KV(<<"p", "a", "e", "s",
        "e">>, JStr(<<"S", "t", "a", "t", "i", " ", "U", "n", "i", "t", "i", " ", "(", "C",
        "a", "l", "i", "s", "o", "t", "a", ")">>)), KV(<<"p", "e", "r", "s", "o", "n", "a",
        "g", "g", "i">>, JArr(<<JObj(<<KV(<<"i", "d">>, JStr(<<"p", "a", "p", "e", "r",
        "i", "n", "o">>)), KV(<<"n", "o", "m", "e">>, JStr(<<"P", "a", "p", "e", "r", "i",
        "n", "o">>)), KV(<<"s", "p", "e", "c", "i", "e">>, JStr(<<"A", "n", "a", "t", "r",
        "a">>)), KV(<<"p", "e", "r", "s", "o", "n", "a", "l", "i", "t", "a">>, JStr(<<"I",
        "r", "r", "i", "t", "a", "b", "i", "l", "e", " ", "m", "a", " ", "d", "a", "l",
        " ", "c", "u", "o", "r", "e", " ", "d", " ", "o", "r", "o">>)), KV(<<"o", "c", "c",
        "u", "p", "a", "z", "i", "o", "n", "e">>, JStr(<<"D", "i", "s", "o", "c", "c", "u",
        "p", "a", "t", "o", " ", "o", "c", "c", "a", "s", "i", "o", "n", "a", "l", "e">>)),
        KV(<<"p", "r", "i", "m", "a", "_", "a", "p", "p", "a", "r", "i", "z", "i", "o",
        "n", "e">>, JStr(<<"1", "9", "3", "4">>)), KV(<<"a", "l", "l", "e", "a", "t",
        "i">>, JArr(<<JStr(<<"P", "a", "p", "e", "r", "i", "n", "a">>), JStr(<<"Q", "u",
        "i", " ", "Q", "u", "o", " ", "Q", "u", "a">>), JStr(<<"P", "a", "p", "e", "r",
        "o", "n", "e">>)>>)), KV(<<"n", "e", "m", "i", "c", "i">>, JArr(<<JStr(<<"G", "a",
        "s", "t", "o", "n", "e">>), JStr(<<"R", "o", "c", "k", "o", "o">>)>>))>>),
        JObj(<<KV(<<"i", "d">>, JStr(<<"p", "a", "p", "e", "r", "i", "n", "a">>)),
        KV(<<"n", "o", "m", "e">>, JStr(<<"P", "a", "p", "e", "r", "i", "n", "a">>)),
        KV(<<"s", "p", "e", "c", "i", "e">>, JStr(<<"A", "n", "a", "t", "r", "a">>)),
        KV(<<"p", "e", "r", "s", "o", "n", "a", "l", "i", "t", "a">>, JStr(<<"D", "o", "l",
        "c", "e", " ", "m", "a", " ", "d", "e", "t", "e", "r", "m", "i", "n", "a", "t",
        "a">>)), KV(<<"o", "c", "c", "u", "p", "a", "z", "i", "o", "n", "e">>, JStr(<<"S",
        "a", "r", "t", "a">>)), KV(<<"p", "r", "i", "m", "a", "_", "a", "p", "p", "a", "r",
        "i", "z", "i", "o", "n", "e">>, JStr(<<"1", "9", "3", "7">>)), KV(<<"a", "l", "l",
        "e", "a", "t", "i">>, JArr(<<JStr(<<"P", "a", "p", "e", "r", "i", "n", "o">>)>>)),
        KV(<<"n", "e", "m", "i", "c", "i">>, JArr(<<JStr(<<"R", "e", "g", "i", "n", "a",
        " ", "d", "e", "l", "l", " ", "e", "r", "b", "a", " ", "a", "m", "a", "r",
        "a">>)>>))>>), JObj(<<KV(<<"i", "d">>, JStr(<<"p", "a", "p", "e", "r", "o", "n",
        "e">>)), KV(<<"n", "o", "m", "e">>, JStr(<<"P", "a", "p", "e", "r", "o", "n", " ",
        "d", "e", " ", "P", "a", "p", "e", "r", "o", "n", "i">>)), KV(<<"s", "p", "e", "c",
        "i", "e">>, JStr(<<"A", "n", "a", "t", "r", "a">>)), KV(<<"p", "e", "r", "s", "o",
        "n", "a", "l", "i", "t", "a">>, JStr(<<"A", "v", "a", "r", "o", " ", "m", "a", " ",
        "a", "f", "f", "e", "t", "t", "u", "o", "s", "o", " ", "c", "o", "n", " ", "i",
        " ", "n", "i", "p", "o", "t", "i", "n", "i">>)), KV(<<"o", "c", "c", "u", "p", "a",
        "z", "i", "o", "n", "e">>, JStr(<<"U", "o", "m", "o", " ", "p", "i", "ù", " ", "r",
        "i", "c", "c", "o", " ", "d", "e", "l", " ", "m", "o", "n", "d", "o">>)), KV(<<"p",
        "r", "i", "m", "a", "_", "a", "p", "p", "a", "r", "i", "z", "i", "o", "n", "e">>,
        JStr(<<"1", "9", "4", "7">>)), KV(<<"p", "a", "t", "r", "i", "m", "o", "n", "i",
        "o">>, JStr(<<"5", " ", "m", "u", "l", "t", "i", "p", "l", "i", "k", "a", "t", "i",
        "o", "n", "i", "l", "i", "o", "n", "i">>)), KV(<<"a", "l", "l", "e", "a", "t",
        "i">>, JArr(<<JStr(<<"Q", "u", "i", " ", "Q", "u", "o", " ", "Q", "u", "a">>),
        JStr(<<"B", "a", "t", "t", "a">>), JStr(<<"T", "a", "b", "a", "c", "c", "a">>)>>)),
        KV(<<"n", "e", "m", "i", "c", "i">>, JArr(<<JStr(<<"B", "r", "i", "g", "i", "t",
        "t", "a">>), JStr(<<"R", "o", "c", "k", "e", "r", "d", "u", "c", "k">>)>>))>>),
        JObj(<<KV(<<"i", "d">>, JStr(<<"q", "u", "i", "q", "u", "o", "q", "u", "a">>)),
        KV(<<"n", "o", "m", "e">>, JStr(<<"Q", "u", "i", " ", "Q", "u", "o", " ", "Q", "u",
        "a">>)), KV(<<"s", "p", "e", "c", "i", "e">>, JStr(<<"A", "n", "a", "t", "r", "o",
        "c", "c", "o", "l", "i">>)), KV(<<"p", "e", "r", "s", "o", "n", "a", "l", "i", "t",
        "a">>, JStr(<<"V", "i", "v", "a", "c", "i", ",", " ", "c", "u", "r", "i", "o", "s",
        "i", " ", "e", " ", "c", "o", "m", "b", "i", "n", "a", "g", "u", "a", "i">>)),
        KV(<<"o", "c", "c", "u", "p", "a", "z", "i", "o", "n", "e">>, JStr(<<"S", "c", "o",
        "l", "a", "r", "e", "t", "t", "i">>)), KV(<<"p", "r", "i", "m", "a", "_", "a", "p",
        "p", "a", "r", "i", "z", "i", "o", "n", "e">>, JStr(<<"1", "9", "3", "7">>)),
        KV(<<"z", "i", "o">>, JStr(<<"P", "a", "p", "e", "r", "i", "n", "o">>)), KV(<<"z",
        "i", "o", "_", "r", "i", "c", "o">>, JStr(<<"P", "a", "p", "e", "r", "o", "n",
        "e">>)), KV(<<"s", "q", "u", "a", "d", "r", "a">>, JStr(<<"G", "i", "o", "v", "a",
        "n", "i", " ", "M", "a", "r", "m", "o", "t", "t", "e">>))>>), JObj(<<KV(<<"i",
        "d">>, JStr(<<"g", "a", "s", "t", "o", "n", "e">>)), KV(<<"n", "o", "m", "e">>,
        JStr(<<"G", "a", "s", "t", "o", "n", "e">>)), KV(<<"s", "p", "e", "c", "i", "e">>,
        JStr(<<"A", "n", "a", "t", "r", "a">>)), KV(<<"p", "e", "r", "s", "o", "n", "a",
        "l", "i", "t", "a">>, JStr(<<"P", "r", "e", "s", "u", "n", "t", "u", "o", "s", "o",
        ",", " ", "v", "a", "n", "i", "t", "o", "s", "o", ",", " ", "c", "a", "t", "t",
        "i", "v", "o">>)), KV(<<"o", "c", "c", "u", "p", "a", "z", "i", "o", "n", "e">>,
        JStr(<<"S", "c", "o", "c", "c", "i", "a", "t", "o", "r", "e", " ", "p", "r", "o",
        "f", "e", "s", "s", "i", "o", "n", "i", "s", "t", "a">>)), KV(<<"p", "r", "i", "m",
        "a", "_", "a", "p", "p", "a", "r", "i", "z", "i", "o", "n", "e">>, JStr(<<"1", "9",
        "5", "2">>)), KV(<<"i", "n", "t", "e", "r", "e", "s", "s", "e">>, JStr(<<"P", "a",
        "p", "e", "r", "i", "n", "a">>)), KV(<<"r", "i", "v", "a", "l", "e">>, JStr(<<"P",
        "a", "p", "e", "r", "i", "n", "o">>))>>), JObj(<<KV(<<"i", "d">>, JStr(<<"r", "o",
        "c", "k", "o", "o">>)), KV(<<"n", "o", "m", "e">>, JStr(<<"R", "o", "c", "k", "o",
        "o">>)), KV(<<"s", "p", "e", "c", "i", "e">>, JStr(<<"C", "a", "n", "e">>)),
        KV(<<"p", "e", "r", "s", "o", "n", "a", "l", "i", "t", "a">>, JStr(<<"M", "a", "l",
        "a", "n", "d", "r", "i", "n", "o", ",", " ", "f", "u", "r", "b", "o", ",", " ",
        "b", "a", "s", "t", "i", "a", "n", "c", "o", "n", "t", "r", "a", "r", "i", "o">>)),
        KV(<<"o", "c", "c", "u", "p", "a", "z", "i", "o", "n", "e">>, JStr(<<"B", "u", "l",
        "l", "o", " ", "d", "e", "l", " ", "q", "u", "a", "r", "t", "i", "e", "r", "e">>)),
        KV(<<"p", "r", "i", "m", "a", "_", "a", "p", "p", "a", "r", "i", "z", "i", "o",
        "n", "e">>, JStr(<<"1", "9", "5", "1">>)), KV(<<"v", "i", "t", "t", "i", "m", "a",
        "_", "p", "r", "e", "f", "e", "r", "i", "t", "a">>, JStr(<<"P", "a", "p", "e", "r",
        "i", "n", "o">>))>>)>>))>>)

topolinia_doc ==
    JObj(<<KV(<<"n", "o", "m", "e">>, JStr(<<"T", "o", "p", "o", "l", "i", "n", "i",
        "a">>)), KV(<<"t", "i", "p", "o">>, JStr(<<"c", "i", "t", "t", "à">>)), KV(<<"d",
        "e", "s", "c", "r", "i", "z", "i", "o", "n", "e">>, JStr(<<"L", "a", " ", "c", "i",
        "t", "t", "à", " ", "d", "o", "v", "e", " ", "v", "i", "v", "o", "n", "o", " ",
        "T", "o", "p", "o", "l", "i", "n", "o", " ", "e", " ", "i", " ", "s", "u", "o",
        "i", " ", "a", "m", "i", "c", "i">>)), KV(<<"p", "a", "e", "s", "e">>, JStr(<<"S",
        "t", "a", "t", "i", " ", "U", "n", "i", "t", "i", " ", "(", "M", "o", "u", "s",
        "e", "t", "o", "n", ")">>)), KV(<<"p", "e", "r", "s", "o", "n", "a", "g", "g",
        "i">>, JArr(<<JObj(<<KV(<<"i", "d">>, JStr(<<"t", "o", "p", "o", "l", "i", "n",
        "o">>)), KV(<<"n", "o", "m", "e">>, JStr(<<"T", "o", "p", "o", "l", "i", "n",
        "o">>)), KV(<<"s", "p", "e", "c", "i", "e">>, JStr(<<"T", "o", "p", "o">>)),
        KV(<<"p", "e", "r", "s", "o", "n", "a", "l", "i", "t", "a">>, JStr(<<"A", "l", "l",
        "e", "g", "r", "a", ",", " ", "o", "t", "t", "i", "m", "i", "s", "t", "a", ",",
        " ", "c", "o", "r", "a", "g", "g", "i", "o", "s", "a">>)), KV(<<"o", "c", "c", "u",
        "p", "a", "z", "i", "o", "n", "e">>, JStr(<<"T", "u", "t", "t", "o", " ", "f", "a",
        "r", "e">>)), KV(<<"p", "r", "i", "m", "a", "_", "a", "p", "p", "a", "r", "i", "z",
        "i", "o", "n", "e">>, JStr(<<"1", "9", "2", "8">>)), KV(<<"f", "i", "d", "a", "n",
        "a", "z", "a", "t", "a">>, JStr(<<"M", "i", "n", "n", "i", "e">>)), KV(<<"a", "m",
        "i", "c", "o", "_", "m", "i", "g", "l", "i", "o", "r", "e">>, JStr(<<"P", "i", "p",
        "p", "o">>)), KV(<<"m", "a", "s", "c", "o", "t", "t", "e", "_", "d", "i", "s", "n",
        "e", "y">>, JBool(TRUE))>>), JObj(<<KV(<<"i", "d">>, JStr(<<"m", "i", "n", "n",
        "i", "e">>)), KV(<<"n", "o", "m", "e">>, JStr(<<"M", "i", "n", "n", "i", "e">>)),
        KV(<<"s", "p", "e", "c", "i", "e">>, JStr(<<"T", "o", "p", "a">>)), KV(<<"p", "e",
        "r", "s", "o", "n", "a", "l", "i", "t", "a">>, JStr(<<"D", "o", "l", "c", "e", ",",
        " ", "e", "l", "e", "g", "a", "n", "t", "e", ",", " ", "c", "r", "e", "a", "t",
        "i", "v", "a">>)), KV(<<"o", "c", "c", "u", "p", "a", "z", "i", "o", "n", "e">>,
        JStr(<<"M", "a", "e", "s", "t", "r", "a", " ", "d", "i", " ", "m", "u", "s", "i",
        "c", "a">>)), KV(<<"p", "r", "i", "m", "a", "_", "a", "p", "p", "a", "r", "i", "z",
        "i", "o", "n", "e">>, JStr(<<"1", "9", "2", "8">>)), KV(<<"f", "i", "d", "a", "n",
        "a", "z", "a", "t", "o">>, JStr(<<"T", "o", "p", "o", "l", "i", "n", "o">>)),
        KV(<<"p", "a", "s", "s", "i", "o", "n", "e">>, JStr(<<"F", "i", "o", "r", "i", " ",
        "e", " ", "m", "u", "s", "i", "c", "a">>))>>), JObj(<<KV(<<"i", "d">>, JStr(<<"p",
        "i", "p", "p", "o">>)), KV(<<"n", "o", "m", "e">>, JStr(<<"P", "i", "p", "p",
        "o">>)), KV(<<"s", "p", "e", "c", "i", "e">>, JStr(<<"C", "a", "n", "e">>)),
        KV(<<"p", "e", "r", "s", "o", "n", "a", "l", "i", "t", "a">>, JStr(<<"G", "o", "o",
        "f", "y", ",", " ", "m", "a", "l", "d", "e", "s", "t", "r", "o", ",", " ", "b",
        "u", "o", "n", " ", "c", "u", "o", "r", "e">>)), KV(<<"o", "c", "c", "u", "p", "a",
        "z", "i", "o", "n", "e">>, JStr(<<"D", "i", "s", "o", "c", "c", "u", "p", "a", "t",
        "o", " ", "f", "e", "l", "i", "c", "e">>)), KV(<<"p", "r", "i", "m", "a", "_", "a",
        "p", "p", "a", "r", "i", "z", "i", "o", "n", "e">>, JStr(<<"1", "9", "3", "2">>)),
        KV(<<"a", "m", "i", "c", "o", "_", "m", "i", "g", "l", "i", "o", "r", "e">>,
        JStr(<<"T", "o", "p", "o", "l", "i", "n", "o">>)), KV(<<"f", "r", "a", "s", "e",
        "_", "f", "a", "m", "o", "s", "a">>, JStr(<<"G", "a", "w", "r", "s", "h",
        "!">>))>>), JObj(<<KV(<<"i", "d">>, JStr(<<"p", "l", "u", "t", "o">>)), KV(<<"n",
        "o", "m", "e">>, JStr(<<"P", "l", "u", "t", "o">>)), KV(<<"s", "p", "e", "c", "i",
        "e">>, JStr(<<"C", "a", "n", "e">>)), KV(<<"p", "e", "r", "s", "o", "n", "a", "l",
        "i", "t", "a">>, JStr(<<"F", "e", "d", "e", "l", "e", ",", " ", "g", "i", "o", "c",
        "h", "e", "r", "e", "l", "l", "o", "n", "e", ",", " ", "v", "i", "v", "a", "c",
        "e">>)), KV(<<"o", "c", "c", "u", "p", "a", "z", "i", "o", "n", "e">>, JStr(<<"C",
        "a", "n", "e", " ", "d", "a", " ", "c", "o", "m", "p", "a", "g", "n", "i", "a",
        " ", "d", "i", " ", "T", "o", "p", "o", "l", "i", "n", "o">>)), KV(<<"p", "r", "i",
        "m", "a", "_", "a", "p", "p", "a", "r", "i", "z", "i", "o", "n", "e">>, JStr(<<"1",
        "9", "3", "0">>)), KV(<<"p", "a", "d", "r", "o", "n", "e">>, JStr(<<"T", "o", "p",
        "o", "l", "i", "n", "o">>)), KV(<<"n", "e", "m", "i", "c", "o", "_", "g", "i", "u",
        "r", "a", "t", "o">>, JStr(<<"G", "a", "t", "t", "o", " ", "B", "u", "t", "c",
        "h">>))>>), JObj(<<KV(<<"i", "d">>, JStr(<<"c", "l", "a", "r", "a", "b", "e", "l",
        "l", "a">>)), KV(<<"n", "o", "m", "e">>, JStr(<<"C", "l", "a", "r", "a", "b", "e",
        "l", "l", "a">>)), KV(<<"s", "p", "e", "c", "i", "e">>, JStr(<<"M", "u", "c", "c",
        "a">>)), KV(<<"p", "e", "r", "s", "o", "n", "a", "l", "i", "t", "a">>, JStr(<<"P",
        "o", "m", "p", "o", "s", "a", ",", " ", "e", "l", "e", "g", "a", "n", "t", "e",
        ",", " ", "p", "e", "t", "t", "e", "g", "o", "l", "a">>)), KV(<<"o", "c", "c", "u",
        "p", "a", "z", "i", "o", "n", "e">>, JStr(<<"S", "o", "c", "i", "a", "l", "i", "t",
        "e">>)), KV(<<"p", "r", "i", "m", "a", "_", "a", "p", "p", "a", "r", "i", "z", "i",
        "o", "n", "e">>, JStr(<<"1", "9", "2", "8">>)), KV(<<"i", "n", "t", "e", "r", "e",
        "s", "s", "e", "_", "r", "o", "m", "a", "n", "t", "i", "c", "o">>, JStr(<<"P", "i",
        "p", "p", "o">>))>>), JObj(<<KV(<<"i", "d">>, JStr(<<"c", "i", "c", "o", "e">>)),
        KV(<<"n", "o", "m", "e">>, JStr(<<"C", "i", "c", "o", " ", "e", " ", "C", "i", "c",
        "o">>)), KV(<<"s", "p", "e", "c", "i", "e">>, JStr(<<"S", "c", "o", "i", "a", "t",
        "t", "o", "l", "i">>)), KV(<<"p", "e", "r", "s", "o", "n", "a", "l", "i", "t",
        "a">>, JStr(<<"C", "o", "m", "b", "i", "n", "a", "g", "u", "a", "i", ",", " ", "g",
        "o", "l", "o", "s", "i", ",", " ", "v", "i", "v", "a", "c", "i">>)), KV(<<"o", "c",
        "c", "u", "p", "a", "z", "i", "o", "n", "e">>, JStr(<<"T", "r", "o", "u", "b", "l",
        "e", "m", "a", "k", "e", "r", "s">>)), KV(<<"p", "r", "i", "m", "a", "_", "a", "p",
        "p", "a", "r", "i", "z", "i", "o", "n", "e">>, JStr(<<"1", "9", "4", "3">>)),
        KV(<<"a", "m", "a", "t", "i">>, JStr(<<"N", "o", "c", "i", " ", "e", " ", "n", "o",
        "c", "c", "i", "o", "l", "i", "n", "e">>)), KV(<<"f", "r", "a", "s", "e", "_", "f",
        "a", "m", "o", "s", "a">>, JStr(<<"C", "i", "c", "o", "!">>))>>)>>))>>)

\* crea_disneyland(db) on the database opened: the three areas, then the two cities
crea_disneyland_db(db, disneyland) ==
    SeedInserts(InsertAll(Opened(db, disneyland), db.db.path,
                          aree \o <<paperopoli_doc, topolinia_doc>>, 1),
                db.db.path, s_Disneyland)

\* crea_disneyland(db): five documents in the table Disneyland; held is the
\* database passed in, or NoHeld
crea_disneyland(f, held) == crea_disneyland_db(DbOf(f, held), held.Disneyland)

-----------------------------------------------------------------------------
(* The seed functions on their own: database.json in the states a run can find it
   in, riassunti_H/ present or not, and the functions called one after the other,
   with the database an earlier call returned or without it, and get_db() after
   them *)

\* The number of seed functions one run calls
MaxSeedCalls == 3

SeedCount == IF call.op \in SeedOps THEN call.n ELSE 0

\* The database the caller holds
SeedHeld == IF call.op \in SeedOps THEN call.held ELSE NoHeld

\* The database the caller holds after a call on the table name: the one passed in
\* with its table as the call left it, or the one the function returned when the
\* caller held none
Kept(held, used, name, seeded) ==
    IF used THEN [held EXCEPT ![name] = seeded.tbl]
    ELSE IF ~held.has /\ seeded.exc = "none"
    THEN [NoHeld EXCEPT !.has = TRUE, ![name] = seeded.tbl]
    ELSE held

\* One seed function ran: the file system it left and what it returned or raised
seed_call(op, used, name, seeded) ==
    /\ call.op \in {"none"} \cup SeedOps
    /\ fs' = seeded.fs
    /\ call' = [op |-> op, n |-> SeedCount + 1, exc |-> seeded.exc,
                ids |-> seeded.ids, total |-> seeded.total, used |-> used,
                held |-> Kept(SeedHeld, used, name, seeded)]
    /\ UNCHANGED <<session, nav, store>>

\* db=None, or the database the caller holds
Passed == IF SeedHeld.has THEN {NoHeld, SeedHeld} ELSE {NoHeld}

inizializza_call ==
    /\ SeedCount < MaxSeedCalls
    /\ seed_call("inizializza", FALSE, "riassunti", inizializza(fs))

\* The orders in which os.listdir may give the names
Orders(S) ==
    {TupleOf(g, 1) : g \in {h \in [1..Cardinality(S) -> S] :
                              \A i, j \in 1..Cardinality(S) : i # j => h[i] # h[j]}}

popola_call ==
    /\ SeedCount < MaxSeedCalls
    /\ \E held \in Passed, names \in Orders(ListDir(fs, cartella_riassunti)) :
           seed_call("popola", held.has, "riassunti", popola(fs, held, names))

crea_disneyland_call ==
    /\ SeedCount < MaxSeedCalls
    /\ \E held \in Passed :
           seed_call("crea_disneyland", held.has, "Disneyland",
                     crea_disneyland(fs, held))

SeedDoc == JObj(<<KV(s_nome, JStr(<<"x">>))>>)

\* The table riassunti as a run may find it: with documents, with a key that is not
\* an integer, with keys that are the same integer, and not an object
SeedRiassunti ==
    {JObj(<<KV(<<"1">>, SeedDoc), KV(<<"3">>, SeedDoc)>>),
     JObj(<<KV(<<"x">>, SeedDoc)>>),
     JObj(<<KV(<<"2">>, SeedDoc), KV(<<" ", "2">>, JObj(<<>>)), KV(<<"1", "_", "0">>, SeedDoc)>>),
     JArr(<<>>), JArr(<<SeedDoc>>)}

SeedContents ==
    {JObj(<<>>), JNull, JArr(<<SeedDoc>>), Monolithic,
     JObj(<<KV(s_Disneyland, JObj(<<KV(<<"7">>, SeedDoc)>>))>>)}
    \cup {JObj(<<KV(s_riassunti, t)>>) : t \in SeedRiassunti}

n_a_json == <<"a", ".", "j", "s", "o", "n">>
n_b_json == <<"b", ".", "j", "s", "o", "n">>
n_d_json == <<"d", ".", "j", "s", "o", "n">>
n_c_txt == <<"c", ".", "t", "x", "t">>
n_riassunti_H == <<"r", "i", "a", "s", "s", "u", "n", "t", "i", "_", "H">>

\* riassunti_H: missing, a file, an empty directory, a directory of files that
\* parse, do not parse, are not .json, or are a directory
SeedFolders ==
    {[dirs |-> {<<>>}, files |-> NoFiles],
     [dirs |-> {<<>>}, files |-> [p \in {<<n_riassunti_H>>} |-> EmptyText]],
     [dirs |-> {<<>>, <<n_riassunti_H>>}, files |-> NoFiles],
     [dirs |-> {<<>>, <<n_riassunti_H>>},
      files |-> [p \in {<<n_riassunti_H, n_a_json>>, <<n_riassunti_H, n_b_json>>} |->
                    IF p[2] = n_a_json THEN Dump(JNum(1), FALSE) ELSE BrokenText]],
     [dirs |-> {<<>>, <<n_riassunti_H>>, <<n_riassunti_H, n_d_json>>},
      files |-> [p \in {<<n_riassunti_H, n_a_json>>, <<n_riassunti_H, n_c_txt>>} |->
                    Dump(JArr(<<SeedDoc>>), TRUE)]]}

InitSeed ==
    /\ \E folder \in SeedFolders,
          content \in {Dump(d, FALSE) : d \in SeedContents}
                      \cup {EmptyText, BrokenText, [kind |-> "absent"]} :
          fs = IF content.kind = "absent" THEN folder
               ELSE PutFile(folder, <<s_database_json>>, content)
    /\ session = [current_db |-> <<s_database_json>>]
    /\ call = NoCall
    /\ nav = NoNav
    /\ store = NoStore

NextSeed ==
    \/ inizializza_call
    \/ popola_call
    \/ crea_disneyland_call
    \/ get_db_call

SpecSeed == InitSeed /\ [][NextSeed]_vars

-----------------------------------------------------------------------------
(* _sanitize_filename on its own: every name of a few characters *)

\* One call of _sanitize_filename, on the name at hand
sanitize_call ==
    /\ call.op = "none"
    /\ call' = [op |-> "_sanitize_filename", name |-> call.name,
                ret |-> _sanitize_filename(call.name)]
    /\ UNCHANGED <<fs, session, nav, store>>

\* The longest name over letters, the space, / and :
MaxNameLen == 5

\* The longest name over every character, all nine replaced ones included
MaxShortNameLen == 2

NameChars == {"a", "b", "c", " ", "/", ":"}

AllNameChars == NameChars \cup {invalid_chars[j] : j \in 1..Len(invalid_chars)} \cup {"_", "."}

Names ==
    UNION {[1..m -> NameChars] : m \in 0..MaxNameLen}
    \cup UNION {[1..m -> AllNameChars] : m \in 0..MaxShortNameLen}

InitSanitize ==
    /\ fs = [dirs |-> {<<>>}, files |-> NoFiles]
    /\ session = [current_db |-> <<s_database_json>>]
    /\ \E name \in Names : call = [op |-> "none", name |-> TupleOf(name, 1)]
    /\ nav = NoNav
    /\ store = NoStore

NextSanitize == sanitize_call

SpecSanitize == InitSanitize /\ [][NextSanitize]_vars

-----------------------------------------------------------------------------
(* The splitter on keys that name directories, the root config, or one another *)

\* The largest number of members of an object of the key specification
MaxChildKeys == 2

k_root == <<"r", "o", "o", "t">>

NamingChildKeys == {k_a, k_root, s_dot, s_dotdot, k_a_slash_b, k_a_colon_b}
NamingTopKeys == {k_T, k_root, s_dot, s_dotdot}

\* Each member holds the number of its position
RECURSIVE Numbers(_, _)
Numbers(ks, i) ==
    IF i > Len(ks) THEN <<>>
    ELSE <<KV(ks[i], JNum(i))>> \o Numbers(ks, i + 1)

NamingObjects ==
    UNION {{JObj(Numbers(ks, 1)) :
               ks \in {q \in [1..n -> NamingChildKeys] :
                          \A i, j \in 1..n : i # j => q[i] # q[j]}} :
           n \in 0..MaxChildKeys}

\* Objects split at the top, under one top-level key, and one key with a number
NamingInputs ==
    NamingObjects
    \cup {JObj(<<KV(k, o)>>) : k \in NamingTopKeys, o \in NamingObjects}
    \cup {JObj(<<KV(k, JNum(5))>>) : k \in NamingTopKeys}

InitKeys ==
    /\ \E d \in NamingInputs :
          fs = [dirs |-> {<<>>}, files |-> [p \in {<<in_db_json>>} |-> Dump(d, FALSE)]]
    /\ session = [current_db |-> <<s_database_json>>]
    /\ call = NoCall
    /\ nav = NoNav
    /\ store = NoStore

NextKeys ==
    /\ call.op = "none"
    /\ \E minify \in BOOLEAN :
          main(<<in_db_json>>, <<s_out>>, DefaultMaxDepth, DefaultThreshold, minify, NoFail)

SpecKeys == InitKeys /\ [][NextKeys]_vars

-----------------------------------------------------------------------------
(* The breadcrumb's contract *)

\* The entries of the breadcrumb after Home
Shown == Tail(nav.breadcrumb)

\* build_breadcrumb was called on coll/doc/5/field/x with a document named Foo
C12Case ==
    /\ nav.op = "build_breadcrumb"
    /\ nav.path = JoinSlash(<<k_coll, s_doc, k_5, s_field, k_x>>)
    /\ IsDict(nav.current_doc)
    /\ HasKey(nav.current_doc, s_nome)
    /\ Item(nav.current_doc, s_nome) = JStr(k_Foo)

\* C12 as stated: build_breadcrumb on coll/doc/5/field/x with a document named Foo
\* returns Home, coll under /browse/coll, Foo under /browse/coll/doc/5/field, and x
\* with no URL.
C12_DocumentEntryUnderField ==
    C12Case =>
        nav.breadcrumb =
            <<Crumb(JStr(s_slash), JStr(s_Home)),
              Crumb(JStr(s_browse_slash \o k_coll), JStr(k_coll)),
              Crumb(JStr(s_browse_slash \o JoinSlash(<<k_coll, s_doc, k_5, s_field>>)),
                    JStr(k_Foo)),
              Crumb(JNull, JStr(k_x))>>

\* C12, amended: build_breadcrumb on coll/doc/5/field/x with a document named Foo
\* returns Home, coll under /browse/coll, Foo under /browse/coll/doc/5, and x with
\* no URL.
C12_DocumentEntryUnderId ==
    C12Case =>
        nav.breadcrumb =
            <<Crumb(JStr(s_slash), JStr(s_Home)),
              Crumb(JStr(s_browse_slash \o k_coll), JStr(k_coll)),
              Crumb(JStr(s_browse_slash \o JoinSlash(<<k_coll, s_doc, k_5>>)),
                    JStr(k_Foo)),
              Crumb(JNull, JStr(k_x))>>

C12_Witness == C12Case /\ Len(nav.breadcrumb) = 4

\* The positions of the segments of a path that get an entry: not empty, not doc,
\* not field
Unsuppressed(parts) ==
    SelectSeq([i \in 1..Len(parts) |-> i],
              LAMBDA i : parts[i] # <<>> /\ parts[i] \notin {s_doc, s_field})

\* The segments of a path up to position i, joined, the empty ones left out
JoinedPrefix(parts, i) ==
    JoinSlash(SelectSeq(SubSeq(parts, 1, i), LAMBDA p : p # <<>>))

\* C13: for every path with at least one segment that is not empty, doc or field, the
\* entry of the last such segment has no URL and every entry before it (after Home)
\* has the URL /browse/ + the joined prefix up to its segment.
C13_LastEntryHasNoUrl ==
    LET parts == SplitSlash(nav.path)
        kept == Unsuppressed(parts)
    IN  (nav.op = "build_breadcrumb" /\ kept # <<>>) =>
            /\ Len(Shown) = Len(kept)
            /\ Shown[Len(kept)].url = JNull
            /\ \A k \in 1..(Len(kept) - 1) :
                  Shown[k].url = JStr(s_browse_slash \o JoinedPrefix(parts, kept[k]))

\* The request was answered for an address table/doc/id/...
C14Case ==
    /\ nav.op = "browse"
    /\ nav.exc = "none"
    /\ Len(Address) >= 3
    /\ Address[2] = s_doc

\* C14: in the breadcrumb of a browse request, the segment after doc is labelled with
\* the nome of the resolved root document when that exists and is a string, and with
\* # + the segment otherwise.
C14_IdLabelledByRootNome ==
    C14Case =>
        nav.breadcrumb[3].label =
            IF /\ IsDict(nav.root_doc)
               /\ HasKey(nav.root_doc, s_nome)
               /\ Item(nav.root_doc, s_nome).t = "str"
            THEN Item(nav.root_doc, s_nome)
            ELSE JStr(<<"#">> \o Address[3])

-----------------------------------------------------------------------------
(* The sharded store's contract *)

\* The last call was get(doc_id) on a table and it returned
GetReturned == Built /\ store.last.op = "get" /\ store.last.exc = "none"

\* The documents of the table the last call used
LastDocs == store._table_cache[store.last.name].docs

\* The documents with the sequence number n
WithIdentity(n) == {i \in 1..Len(LastDocs) : LastDocs[i].doc_id = n}

\* The documents that have an _id field equal to id
WithIdField(id) ==
    {i \in 1..Len(LastDocs) :
        HasKey(LastDocs[i].data, s__id) /\ JEq(Item(LastDocs[i].data, s__id), id)}

\* The documents whose _id, None when they have none, equals id
WithIdOrNone(id) ==
    {i \in 1..Len(LastDocs) : JEq(Get(LastDocs[i].data, s__id), id)}

\* C15 as stated: get(id) with an integer id returns the document with that sequence
\* number or not-found, never a document matched by its _id field; with any other id
\* it returns the document whose _id field equals the id, or not-found.
C15_IntegerIdNeverByField ==
    GetReturned =>
        LET id == store.last.doc_id
            found == IF IsInt(id) THEN WithIdentity(NumOf(id)) ELSE WithIdField(id)
        IN  IF found = {} THEN store.last.ret = JNull
            ELSE \E i \in found : store.last.ret = LastDocs[i].data

\* C15, amended: get(id) with an integer id returns the document with that sequence
\* number if there is one; otherwise, and for any other id, it returns the first
\* document whose _id (None when the document has none) equals the id, or not-found.
C15_IntegerIdFallsBackToField ==
    GetReturned =>
        LET id == store.last.doc_id
            bySequence == IF IsInt(id) THEN WithIdentity(NumOf(id)) ELSE {}
            byField == WithIdOrNone(id)
        IN  IF bySequence # {}
            THEN \E i \in bySequence : store.last.ret = LastDocs[i].data
            ELSE IF byField # {}
            THEN \E i \in byField :
                    /\ store.last.ret = LastDocs[i].data
                    /\ \A j \in byField : i <= j
            ELSE store.last.ret = JNull

\* get(7) found no document numbered 7 and returned the one whose _id is 7
C15_Witness ==
    /\ GetReturned
    /\ store.last.doc_id = JNum(7)
    /\ WithIdentity(7) = {}
    /\ store.last.ret = ShardDoc2

\* The last call was all() on a table and it returned
AllReturned == Built /\ store.last.op = "all" /\ store.last.exc = "none"

\* The objects one file of the table's directory contributes, in their order
Contributed(f, p) ==
    IF p \notin DOMAIN f.files \/ ~EndsWith(p[Len(p)], s_json) THEN <<>>
    ELSE LET c == f.files[p]
         IN  IF c.kind # "json" THEN <<>>
             ELSE IF IsDict(c.val) THEN <<c.val>>
             ELSE IF IsList(c.val) THEN SelectSeq(c.val.items, IsDict)
             ELSE <<>>

\* The objects of the files of a directory, the files taken by name
RECURSIVE ContributedBy(_, _, _)
ContributedBy(f, dir, names) ==
    IF names = <<>> THEN <<>>
    ELSE Contributed(f, Append(dir, Head(names))) \o ContributedBy(f, dir, Tail(names))

\* The objects all() is to carry, from the files as they are
Expected(f) ==
    ContributedBy(f, store.db.tables_path, SortedNames(ListDir(f, store.db.tables_path)))

\* C16: after loading, all() carries the objects of the .json files of the table's
\* directory, files by name and elements in array order, numbered 1..N without gaps;
\* elements that are not objects, empty or unparsable files and files not named
\* .json take no number.
C16_SequentialIdentities ==
    (AllReturned /\ store.changes = 0) =>
        LET expected == Expected(fs)
        IN  /\ Len(store.last.ret) = Len(expected)
            /\ \A i \in 1..Len(expected) :
                  /\ store.last.ret[i].doc_id = i
                  /\ store.last.ret[i].data = expected[i]

\* all() returned four documents from two array files, one of which has an element
\* that is not an object
C16_Witness ==
    /\ AllReturned
    /\ store.changes = 0
    /\ store.db.tables_path = <<s_sh, k_t>>
    /\ Len(store.last.ret) = 4
    /\ store.last.ret[4].doc_id = 4
    /\ \E p \in DOMAIN fs.files :
          /\ fs.files[p].kind = "json"
          /\ IsList(fs.files[p].val)
          /\ \E k \in 1..Len(fs.files[p].val.items) : ~IsDict(fs.files[p].val.items[k])

\* The path of the store's root config
RootConfigFile == Append(store.db.directory, s_root_json)

\* The files without the root config
WithoutRootConfig(f) ==
    [dirs |-> f.dirs,
     files |-> [p \in DOMAIN f.files \ {RootConfigFile} |-> f.files[p]]]

\* C17: the root config is never loaded as a document: whatever root.json holds, also
\* the path "", the documents of the store are those of the other .json files of the
\* resolved directory.
C17_RootConfigNotADocument ==
    (AllReturned /\ store.changes = 0) =>
        LET expected == Expected(WithoutRootConfig(fs))
        IN  /\ Len(store.last.ret) = Len(expected)
            /\ \A i \in 1..Len(expected) : store.last.ret[i].data = expected[i]

\* root.json is absent, does not parse, or is not an object with a path
RootConfigUnusable(f) ==
    \/ RootConfigFile \notin DOMAIN f.files
    \/ f.files[RootConfigFile].kind # "json"
    \/ ~IsDict(f.files[RootConfigFile].val)
    \/ ~HasKey(f.files[RootConfigFile].val, s_path)

\* C18: constructing the store never fails because of the root config, and when
\* root.json is absent, does not parse or is not an object with a path, the store
\* takes the path "": the whole directory is the table's directory.
C18_ConstructionNeverFails ==
    store.op = "SplitDirectoryDB" =>
        /\ store.exc = "none"
        /\ RootConfigUnusable(store.files_at_construction) =>
              store.db.tables_path = store.db.directory

\* The table of sequence-numbered objects the files hold
Loaded(f) ==
    LET expected == Expected(f)
    IN  [i \in 1..Len(expected) |-> DocumentWithId(expected[i], i)]

\* The last call returned
Returned == Built /\ store.last.op \in {"all", "get"} /\ store.last.exc = "none"

\* What the last call returns from a table with these documents
ResultFrom(docs) ==
    IF store.last.op = "all" THEN docs
    ELSE get([docs |-> docs], store.last.doc_id)

\* C19 as stated: every document is materialised at construction, so every later
\* table(name).all() and get(id) answers from the files as they were when the store
\* was constructed, whatever happened to the shard files since.
C19_MaterialisedAtConstruction ==
    Returned => store.last.ret = ResultFrom(Loaded(store.files_at_construction))

-----------------------------------------------------------------------------
(* The upgrade's contract *)

\* {"_default": {"1": e1, ..., "N": eN}} for the array [e1..eN]
TinyDbLayout(items) ==
    JObj(<<KV(<<"_", "d", "e", "f", "a", "u", "l", "t">>,
              JObj([i \in 1..Len(items) |-> KV(NatToStr(i), items[i])]))>>)

\* C20: loading a file whose top level is an array [e1..eN] rewrites it as
\* {"_default": {"1": e1, ..., "N": eN}}; after that, and for a file whose top level
\* is an object, every further get_db call leaves the content of the file unchanged.
C20_UpgradeOnce ==
    (call.op = "get_db" /\ call.met.kind = "json") =>
        /\ IsList(call.met.val) =>
              /\ call.left.kind = "json"
              /\ call.left.val = TinyDbLayout(call.met.val.items)
              /\ ContentOf(fs, session.current_db) = call.left
        /\ IsDict(call.met.val) =>
              /\ call.left = call.met
              /\ ContentOf(fs, session.current_db) = call.met

\* get_db ran three times on a file that held an array of three elements
C20_Witness ==
    /\ call.op = "get_db"
    /\ call.n = 3
    /\ call.met.kind = "json"
    /\ IsList(call.met.val)
    /\ Len(call.met.val.items) = 3
    /\ ContentOf(fs, session.current_db).val = TinyDbLayout(call.met.val.items)

-----------------------------------------------------------------------------
(* The contract of _sanitize_filename *)

\* The nine characters that are replaced
Replaced == {"<", ">", ":", "\"", "/", "\\", "|", "?", "*"}

\* The name, each replaced character turned into _
Underscored(name) == [i \in 1..Len(name) |-> IF name[i] \in Replaced THEN "_" ELSE name[i]]

\* ret is what is left of s once the white space around it is taken away
TrimOf(ret, s) ==
    \E i \in 1..(Len(s) + 1), j \in 0..Len(s) :
        /\ \A k \in 1..(i - 1) : s[k] = " "
        /\ \A k \in (j + 1)..Len(s) : s[k] = " "
        /\ ret = SubSeq(s, i, j)
        /\ ret = <<>> \/ (ret[1] # " " /\ ret[Len(ret)] # " ")

\* C21: for every name, _sanitize_filename turns each of < > : " / \ | ? * into _,
\* trims the white space around the name, and returns unnamed when nothing is left;
\* the result is never empty, has none of the nine characters and no white space
\* at either end; a/b:c gives a_b_c and the empty name gives unnamed.
C21_SanitizedName ==
    call.op = "_sanitize_filename" =>
        /\ call.ret # <<>>
        /\ \A i \in 1..Len(call.ret) : call.ret[i] \notin Replaced
        /\ call.ret[1] # " " /\ call.ret[Len(call.ret)] # " "
        /\ \/ TrimOf(call.ret, Underscored(call.name))
           \/ TrimOf(<<>>, Underscored(call.name)) /\ call.ret = s_unnamed
        /\ call.name = <<"a", "/", "b", ":", "c">> => call.ret = <<"a", "_", "b", "_", "c">>
        /\ call.name = <<>> => call.ret = s_unnamed

\* A name of replaced characters inside white space came back as underscores
C21_Witness ==
    /\ call.op = "_sanitize_filename"
    /\ call.name = <<" ", "/", ":", " ">>
    /\ call.ret = <<"_", "_">>

-----------------------------------------------------------------------------
(* The manifest's contract *)

\* The directories the manifest lists
ListedDirectories ==
    {Norm(SplitSlash(call.info.directories_created[i])) :
        i \in 1..Len(call.info.directories_created)}

\* The files and the directories the call created; the output directory itself and
\* the directories above it are the caller's
CreatedFiles == (DOMAIN fs.files) \ (DOMAIN call.before.files)
CreatedDirectories == (fs.dirs \ call.before.dirs) \ Prefixes(Norm(call.output_dir))

\* C22: the manifest split_json_structure returns records every decision and every
\* path created: each file and directory the call created is listed, every listed
\* path exists after the call, and a call that wrote files (its decision was split
\* or save_as_is) has that decision in levels.
C22_ManifestComplete ==
    Completed =>
        /\ CreatedFiles \subseteq Written
        /\ CreatedDirectories \subseteq ListedDirectories
        /\ Written \subseteq DOMAIN fs.files
        /\ ListedDirectories \subseteq fs.dirs
        /\ Written # {} => (HasLevel("split") \/ HasLevel("save_as_is"))

-----------------------------------------------------------------------------
(* Tables the store does not have *)

\* The request was answered for an address whose table is none of tables()
UnknownTable ==
    /\ nav.op = "browse"
    /\ nav.exc = "none"
    /\ nav.current_table \notin nav.tables

\* C23: an address whose table segment is not one of the names tables() returns is a
\* lookup miss in either store: no documents are listed for it, no root document is
\* resolved and the chain of levels is empty.
C23_UnknownTableIsAMiss ==
    UnknownTable =>
        /\ nav.documents = <<>>
        /\ nav.root_doc = JNull
        /\ nav.current_doc = JNull
        /\ nav.nested_levels = <<>>

-----------------------------------------------------------------------------
(* The splitter and the store together *)

\* C24: for every split decision, the directory the splitter creates for the shard
\* files is the directory its root.json resolves to: a store constructed on the
\* output directory reads exactly the directory the splitter wrote into, also for
\* keys that sanitization changes.
C24_RootConfigNamesShardDirectory ==
    (C1Case \/ C2Case) =>
        LET db == SplitDirectoryDB(fs, call.output_dir)
        IN  /\ db.exc = "none"
            /\ ListedDirectories = {Norm(db.tables_path)}

\* POST /split-json succeeded and selected the new directory
SplitSelected ==
    /\ call.op = "split_json"
    /\ call.exc = "none"
    /\ session.current_db = call.output_dir

\* C25: whenever /split-json succeeds and selects the new output directory, the
\* directory holds a root.json, so the next get_db() gives the sharded store, whatever
\* the shape of the input.
C25_SelectedDirectoryIsAStore ==
    SplitSelected =>
        /\ IsFile(fs, Append(call.output_dir, s_root_json))
        /\ get_db(fs, session.current_db).db.kind = "split"

-----------------------------------------------------------------------------
\* Where split_json_structure writes

\* The path is the output directory or lies below it
InsideOutput(p) ==
    LET out == Norm(call.output_dir)
    IN  Len(p) >= Len(out) /\ SubSeq(p, 1, Len(out)) = out

\* The files the call wrote, one per write and in the order of the writes
WrittenInOrder ==
    [i \in 1..Len(call.info.files_created) |-> Norm(SplitSlash(call.info.files_created[i]))]

\* C26: every file and directory split_json_structure writes lies inside the output
\* directory, and no write replaces a file written earlier in the same call
\* (root.json included), whatever the top-level key and the child keys are.
C26_WritesInsideAndApart ==
    Completed =>
        /\ \A p \in CreatedFiles \cup CreatedDirectories \cup ListedDirectories :
              InsideOutput(p)
        /\ \A i \in 1..Len(WrittenInOrder) : InsideOutput(WrittenInOrder[i])
        /\ \A i, j \in 1..Len(WrittenInOrder) :
              i < j => WrittenInOrder[i] # WrittenInOrder[j]

====
